---------------------------- MODULE Spec2Model ----------------------------
(***************************************************************************)
(* Model of the emergency-vehicle demand pipeline:                         *)
(*   - the feature pipeline (src/data/features/build_features.py);         *)
(*   - the prediction service (src/api/main.py and src/run_api.py);        *)
(*   - the data generator (src/data/generate_data.py) and the validator    *)
(*     (src/data/validate_date.py);                                        *)
(*   - the trainer (src/data/models/train.py) and reruns of the scripts.   *)
(*                                                                         *)
(* Time is counted in ticks since 2024-01-01T00:00 (a Monday); an hour has *)
(* TicksPerHour ticks.  Latitudes and longitudes are in tenths of a degree; *)
(* the hexagonal grid maps two neighbouring longitudes to one cell.        *)
(* A rolling mean is the exact fraction [num, den].                        *)
(***************************************************************************)
EXTENDS Integers, Sequences, FiniteSets, TLC

VARIABLES
    raw_csv,        \* the table stored at RAW_DATA_PATH
    pc,             \* position of run_feature_engineering
    df,             \* the working frame of observations
    demand_df,      \* result of aggregate_demand
    features_df,    \* result of add_lag_features
    hexagon_df,     \* result of create_hexagon_mapping
    features_csv,   \* the table stored at FEATURES_OUTPUT_PATH
    hexagon_csv,    \* the table stored at HEXAGON_OUTPUT_PATH
    model_files,    \* the model stored at each model path, if any
    env_MODEL_PATH, \* the MODEL_PATH environment variable
    server,         \* the server module that is run: "main" or "run_api"
    svc,            \* "stopped" before the module is imported, then "running"
    model,          \* the module-level variable model of the server
    last,           \* what the latest request did and was answered
    prev,           \* the latest answered prediction before last
    run,            \* number of the current run of run_feature_engineering
    before,         \* the output files as they were when the current run began
    tpc,            \* position of run_training
    fitted,         \* the local variable model of run_training
    model_before,   \* the model file as it was when run_training began
    gpc,            \* position of the data generator
    records,        \* the local variable records of generate_ambulance_data
    generated_csv,  \* the table stored at the generator's OUTPUT_PATH
    vpc,            \* position of run_validation
    results,        \* the local variable results of run_validation
    returned        \* the value run_validation returned, if any

pipeline_vars == <<raw_csv, pc, df, demand_df, features_df, hexagon_df,
                   features_csv, hexagon_csv>>

service_vars == <<model_files, env_MODEL_PATH, server, svc, model, last, prev>>

run_vars == <<run, before>>

trainer_vars == <<tpc, fitted, model_before>>

data_vars == <<gpc, records, generated_csv, vpc, results, returned>>

vars == <<pipeline_vars, service_vars, run_vars, trainer_vars, data_vars>>

----------------------------------------------------------------------------
(* Bounds of the model *)

NumLocations == 3       \* distinct (latitude, longitude) pairs of free rows
TicksPerHour == 2       \* distinct timestamps inside one hour
MaxFreeHour == 2        \* latest hour of a free row
MaxFree == 2            \* free rows of a small raw table
MidHours == 30          \* hours covered by the medium history
HistoryHours == 190     \* hours covered by the long history

(* Program constants *)

H3_RESOLUTION == 8
LAG_1H == 1
LAG_24H == 24
LAG_168H == 168
ROLLING_3H == 3
ROLLING_24H == 24

NaN == "NaN"            \* a missing value of a table (pandas NaN)

(* The content of a path: a table, or no file *)
NoFile == [exists |-> FALSE, rows |-> <<>>]

File(t) == [exists |-> TRUE, rows |-> t]

(* Tables with a header.  A file written as File(t) has every column its   *)
(* reader asks for; Table(cols, t) has the columns cols only.              *)
Table(cols, t) == [exists |-> TRUE, rows |-> t, columns |-> cols]

HasColumn(f, c) == ("columns" \in DOMAIN f) => (c \in f.columns)

(* Paths of the data files, as the sequence of their components *)

(* Path.parent *)
parent(p) == SubSeq(p, 1, Len(p) - 1)

(* The directory the hard-coded paths take for the repository *)
REPOSITORY == <<"D:", "GitHub_Works", "emergency-vehicle-mlops">>

(* __file__ of generate_data.py *)
FILE_generate == REPOSITORY \o <<"src", "data", "generate_data.py">>

(* OUTPUT_PATH of generate_data.py *)
OUTPUT_PATH ==
    parent(parent(parent(parent(FILE_generate))))
        \o <<"data", "raw", "emergency_data.csv">>

(* DATA_PATH of validate_date.py *)
DATA_PATH ==
    <<"D:", "GitHub_Works", "emergency-vehicle-mlops", "data",
      "emergency_data.csv">>

(* RAW_DATA_PATH of build_features.py *)
RAW_DATA_PATH ==
    <<"D:", "GitHub_Works", "emergency-vehicle-mlops", "data",
      "emergency_data.csv">>

(* FEATURES_OUTPUT_PATH of build_features.py *)
FEATURES_OUTPUT_PATH ==
    <<"D:", "GitHub_Works", "emergency-vehicle-mlops", "data", "features",
      "features.csv">>

(* FEATURES_PATH of train.py *)
FEATURES_PATH ==
    <<"D:", "GitHub_Works", "emergency-vehicle-mlops", "data", "features",
      "features.csv">>

----------------------------------------------------------------------------
(* Calendar of the datetime accessors (pandas .dt), year 2024 *)

HourIndex(ts) == ts \div TicksPerHour

DayIndex(ts) == HourIndex(ts) \div 24

CumDays == <<0, 31, 60, 91, 121, 152, 182, 213, 244, 274, 305, 335, 366>>

dt_year(ts) == 2024 + (DayIndex(ts) \div 366)

dt_month(ts) ==
    LET d == DayIndex(ts) % 366
    IN  CHOOSE m \in 1..12 : CumDays[m] <= d /\ d < CumDays[m + 1]

dt_day(ts) == ((DayIndex(ts) % 366) - CumDays[dt_month(ts)]) + 1

dt_hour(ts) == HourIndex(ts) % 24

dt_dayofweek(ts) == DayIndex(ts) % 7

dt_floor_H(ts) == HourIndex(ts) * TicksPerHour

----------------------------------------------------------------------------
(* Hexagonal grid (h3 library) at resolution res: the finer the resolution *)
(* the fewer locations share a cell.                                       *)

latlng_to_cell(lat, lng, res) ==
    IF res >= 9 THEN (lat * 1000) + lng ELSE (lat * 1000) + (2 * (lng \div 2))

cell_to_latlng(cell) == <<cell \div 1000, cell % 1000>>

----------------------------------------------------------------------------
(* Raw tables *)

(* The n-th location: locations 1 and 2 lie in one cell, 3 and 4 in the next *)
Location(n) == <<129 + ((n - 1) \div 2), 774 + ((n - 1) % 2)>>

Obs(plate, ts, n, duty) ==
    [license_plate |-> plate, observationDateTime |-> ts,
     latitude |-> Location(n)[1], longitude |-> Location(n)[2],
     serviceOnDuty |-> duty]

(* Free rows: the first and the last tick of hour 0, and hour MaxFreeHour *)
FreeTicks == {0, TicksPerHour - 1, MaxFreeHour * TicksPerHour}

FreeRows ==
    { Obs(x[1], ts, n, x[2]) :
        x \in {<<"KA01", "YES">>, <<NaN, "YES">>, <<"KA01", "NO">>},
        ts \in FreeTicks, n \in 1..NumLocations }

RECURSIVE TablesUpTo(_, _)
TablesUpTo(S, n) ==
    IF n = 0 THEN {<<>>}
    ELSE LET T == TablesUpTo(S, n - 1)
         IN  T \cup { Append(t, r) : t \in {u \in T : Len(u) = n - 1}, r \in S }

(* A history of n hours, latest hour first in the file: location 1 is     *)
(* observed every hour, location 2 (same cell, a second vehicle) every     *)
(* fifth hour, location 3 every seventh hour; with gaps, every eleventh    *)
(* hour has no observation of locations 1 and 2.                           *)
HistoryPresent(h, slot, gaps) ==
    CASE slot = 1 -> ~(gaps /\ h % 11 = 4)
      [] slot = 2 -> h % 7 = 3
      [] OTHER    -> h % 5 = 0 /\ ~(gaps /\ h % 11 = 4)

HistoryRow(h, slot) ==
    CASE slot = 1 -> Obs("KA01", (h * TicksPerHour) + (h % TicksPerHour), 1, "YES")
      [] slot = 2 -> Obs("KA02", (h * TicksPerHour) + (h % TicksPerHour), 3, "YES")
      [] OTHER    -> Obs("KA02", h * TicksPerHour, 2, "YES")

History(n, gaps) ==
    LET HourOf(j) == (n - 1) - ((j - 1) \div 3)
        SlotOf(j) == ((j - 1) % 3) + 1
        slots == SelectSeq([j \in 1..(3 * n) |-> j],
                           LAMBDA j : HistoryPresent(HourOf(j), SlotOf(j), gaps))
    IN  [m \in 1..Len(slots) |-> HistoryRow(HourOf(slots[m]), SlotOf(slots[m]))]

RawTables ==
    TablesUpTo(FreeRows, MaxFree)
    \cup { t \o History(MidHours, g) :
             t \in TablesUpTo(FreeRows, 1), g \in BOOLEAN }
    \cup { History(HistoryHours, g) : g \in BOOLEAN }

----------------------------------------------------------------------------
(* Feature pipeline *)

Indices(t) == [i \in 1..Len(t) |-> i]

(* Mutant: the on-duty filter is forgotten *)
load_raw_data_unfiltered(csv) == csv

load_raw_data(csv) ==
    SelectSeq(csv, LAMBDA r : r.serviceOnDuty = "YES")

add_h3_features(t) ==
    [i \in 1..Len(t) |->
        LET c == latlng_to_cell(t[i].latitude, t[i].longitude, H3_RESOLUTION)
        IN  [license_plate |-> t[i].license_plate,
             observationDateTime |-> t[i].observationDateTime,
             latitude |-> t[i].latitude,
             longitude |-> t[i].longitude,
             h3_index |-> c,
             h3_center_lat |-> cell_to_latlng(c)[1],
             h3_center_lon |-> cell_to_latlng(c)[2]]]

add_time_features(t) ==
    [i \in 1..Len(t) |->
        LET ts == t[i].observationDateTime
        IN  [license_plate |-> t[i].license_plate,
             latitude |-> t[i].latitude,
             longitude |-> t[i].longitude,
             h3_index |-> t[i].h3_index,
             h3_center_lat |-> t[i].h3_center_lat,
             h3_center_lon |-> t[i].h3_center_lon,
             datetime |-> ts,
             year |-> dt_year(ts),
             month |-> dt_month(ts),
             day |-> dt_day(ts),
             hour |-> dt_hour(ts),
             day_of_week |-> dt_dayofweek(ts),
             is_weekend |-> IF dt_dayofweek(ts) >= 5 THEN 1 ELSE 0]]

(* Mutant: the groups are keyed by the timestamp, not by its hour *)
GroupKey_exact_datetime(r) ==
    <<r.h3_index, r.datetime, r.year, r.month, r.day, r.hour,
      r.day_of_week, r.is_weekend>>

(* The grouping key of aggregate_demand *)
GroupKey(r) ==
    <<r.h3_index, dt_floor_H(r.datetime), r.year, r.month, r.day, r.hour,
      r.day_of_week, r.is_weekend>>

LexLess(a, b) ==
    \E i \in 1..Len(a) :
        /\ a[i] < b[i]
        /\ \A j \in 1..(i - 1) : a[j] = b[j]

(* The distinct keys of a frame, sorted (groupby sorts its groups) *)
GroupKeys(t) ==
    LET firsts == SelectSeq(Indices(t),
                     LAMBDA i : \A j \in 1..(i - 1) : GroupKey(t[j]) # GroupKey(t[i]))
        keys == [n \in 1..Len(firsts) |-> GroupKey(t[firsts[n]])]
    IN  SortSeq(keys, LexLess)

aggregate_demand(t) ==
    LET keys == GroupKeys(t)
    IN  [n \in 1..Len(keys) |->
            LET k == keys[n]
                rows == SelectSeq(Indices(t), LAMBDA i : GroupKey(t[i]) = k)
            IN  [h3_index |-> k[1], datetime_hour |-> k[2], year |-> k[3],
                 month |-> k[4], day |-> k[5], hour |-> k[6],
                 day_of_week |-> k[7], is_weekend |-> k[8],
                 demand_count |->
                     Cardinality({i \in 1..Len(rows) :
                                     t[rows[i]].license_plate # NaN}),
                 unique_vehicles |->
                     Cardinality({t[rows[i]].license_plate : i \in 1..Len(rows)}
                                 \ {NaN}),
                 h3_center_lat |-> t[rows[1]].h3_center_lat,
                 h3_center_lon |-> t[rows[1]].h3_center_lon]]


(* Sorting key of add_lag_features: sort_values(["h3_index", "datetime_hour"]) *)
SortKeyLess(a, b) ==
    LexLess(<<a.h3_index, a.datetime_hour>>, <<b.h3_index, b.datetime_hour>>)

sort_values(t) == SortSeq(t, SortKeyLess)

(* Rows of the group of h3_index c, in frame order *)
GroupMembers(t, c) == SelectSeq(Indices(t), LAMBDA i : t[i].h3_index = c)

(* Position of row i inside its group, from 1 *)
GroupPos(t, i) == Cardinality({m \in 1..i : t[m].h3_index = t[i].h3_index})

(* Mutant: shift(k) on the whole column, the groupby forgotten *)
groupby_shift_ungrouped(t, i, k) ==
    IF i > k THEN <<t[i - k].demand_count>> ELSE <<>>

(* Mutant: the record k hours earlier instead of k rows earlier *)
groupby_shift_by_hours(t, i, k) ==
    LET at == {j \in 1..Len(t) :
                  /\ t[j].h3_index = t[i].h3_index
                  /\ t[j].datetime_hour = t[i].datetime_hour - (k * TicksPerHour)}
    IN  IF at = {} THEN <<>> ELSE <<t[CHOOSE j \in at : TRUE].demand_count>>

(* groupby("h3_index")["demand_count"].shift(k) at row i: <<>> is NaN *)
groupby_shift(t, i, k) ==
    LET mem == GroupMembers(t, t[i].h3_index)
        p == GroupPos(t, i)
    IN  IF p > k THEN <<t[mem[p - k]].demand_count>> ELSE <<>>

fillna(v, d) == IF v = <<>> THEN d ELSE v[1]

RECURSIVE SumCounts(_, _, _, _)
SumCounts(t, mem, lo, hi) ==
    IF lo > hi THEN 0
    ELSE IF lo = hi THEN t[mem[lo]].demand_count
    ELSE LET mid == (lo + hi) \div 2
         IN  SumCounts(t, mem, lo, mid) + SumCounts(t, mem, mid + 1, hi)

(* Mutant: min_periods left at its default, the window size: the mean is  *)
(* missing (den = 0) until the window is full                             *)
groupby_rolling_mean_full_window(t, i, w) ==
    LET mem == GroupMembers(t, t[i].h3_index)
        p == GroupPos(t, i)
    IN  IF p < w THEN [num |-> 0, den |-> 0]
        ELSE [num |-> SumCounts(t, mem, (p - w) + 1, p), den |-> w]

(* groupby("h3_index")["demand_count"].transform(rolling(w, min_periods=1)  *)
(* .mean()) at row i                                                        *)
groupby_rolling_mean(t, i, w) ==
    LET mem == GroupMembers(t, t[i].h3_index)
        p == GroupPos(t, i)
        lo == IF p - w + 1 > 1 THEN p - w + 1 ELSE 1
    IN  [num |-> SumCounts(t, mem, lo, p), den |-> (p - lo) + 1]

add_lag_features(d) ==
    LET t == sort_values(d)
    IN  [i \in 1..Len(t) |->
            [h3_index |-> t[i].h3_index,
             datetime_hour |-> t[i].datetime_hour,
             year |-> t[i].year, month |-> t[i].month, day |-> t[i].day,
             hour |-> t[i].hour, day_of_week |-> t[i].day_of_week,
             is_weekend |-> t[i].is_weekend,
             demand_count |-> t[i].demand_count,
             unique_vehicles |-> t[i].unique_vehicles,
             h3_center_lat |-> t[i].h3_center_lat,
             h3_center_lon |-> t[i].h3_center_lon,
             demand_lag_1h |-> fillna(groupby_shift(t, i, LAG_1H), 0),
             demand_lag_24h |-> fillna(groupby_shift(t, i, LAG_24H), 0),
             demand_lag_168h |-> fillna(groupby_shift(t, i, LAG_168H), 0),
             demand_rolling_3h |-> groupby_rolling_mean(t, i, ROLLING_3H),
             demand_rolling_24h |-> groupby_rolling_mean(t, i, ROLLING_24H)]]

(* Mutant: total_demand counts the records of the cell *)
create_hexagon_mapping_counting_records(t) ==
    LET firsts == SelectSeq(Indices(t),
                     LAMBDA i : \A j \in 1..(i - 1) : t[j].h3_index # t[i].h3_index)
        cells == SortSeq([n \in 1..Len(firsts) |-> t[firsts[n]].h3_index],
                         LAMBDA a, b : a < b)
    IN  [n \in 1..Len(cells) |->
            LET mem == GroupMembers(t, cells[n])
            IN  [h3_index |-> cells[n],
                 center_lat |-> t[mem[1]].h3_center_lat,
                 center_lon |-> t[mem[1]].h3_center_lon,
                 total_demand |-> Len(mem),
                 avg_demand |-> [num |-> SumCounts(t, mem, 1, Len(mem)),
                                 den |-> Len(mem)],
                 record_count |-> Len(mem)]]

(* groupby("h3_index").agg(...).reset_index() *)
create_hexagon_mapping(t) ==
    LET firsts == SelectSeq(Indices(t),
                     LAMBDA i : \A j \in 1..(i - 1) : t[j].h3_index # t[i].h3_index)
        cells == SortSeq([n \in 1..Len(firsts) |-> t[firsts[n]].h3_index],
                         LAMBDA a, b : a < b)
    IN  [n \in 1..Len(cells) |->
            LET mem == GroupMembers(t, cells[n])
            IN  [h3_index |-> cells[n],
                 center_lat |-> t[mem[1]].h3_center_lat,
                 center_lon |-> t[mem[1]].h3_center_lon,
                 total_demand |-> SumCounts(t, mem, 1, Len(mem)),
                 avg_demand |-> [num |-> SumCounts(t, mem, 1, Len(mem)),
                                 den |-> Len(mem)],
                 record_count |-> Len(mem)]]

----------------------------------------------------------------------------
(* run_feature_engineering, one action per step *)

PipelineStart ==
    /\ raw_csv \in {File(t) : t \in RawTables} \cup {NoFile}
    /\ pc = "start"
    /\ df = <<>>
    /\ demand_df = <<>>
    /\ features_df = <<>>
    /\ hexagon_df = <<>>
    /\ features_csv = NoFile
    /\ hexagon_csv = NoFile
    /\ run = 1
    /\ before = [features |-> NoFile, hexagon |-> NoFile]

(* Mutant: a path without a file reads as a table without rows *)
Readable_always(f) == TRUE

(* pd.read_csv(path) raises FileNotFoundError when the path has no file *)
Readable(f) == f.exists

(* Mutant: to_csv(path, mode="a") *)
to_csv_append(old, frame) == File(old.rows \o frame)

(* frame.to_csv(path, index=False) replaces the content of the path *)
to_csv(old, frame) == File(frame)

(* Step 1: read_csv raises when the file is missing, the filter raises    *)
(* KeyError when the table has no serviceOnDuty column                    *)
StepLoad ==
    /\ pc = "start"
    /\ IF ~Readable(raw_csv) \/ ~HasColumn(raw_csv, "serviceOnDuty")
       THEN /\ pc' = "failed"
            /\ UNCHANGED df
       ELSE /\ pc' = "loaded"
            /\ df' = load_raw_data(raw_csv.rows)
    /\ UNCHANGED <<raw_csv, demand_df, features_df, hexagon_df,
                   features_csv, hexagon_csv>>
    /\ UNCHANGED <<service_vars, run_vars, trainer_vars, data_vars>>

(* Step 2: row["latitude"] and row["longitude"] raise KeyError when the    *)
(* column is missing.  On a frame without rows apply(axis=1) tries the     *)
(* function on a row of NaN: when that raises, apply returns a frame and   *)
(* the column assignment raises; otherwise an empty column is stored.      *)
StepH3 ==
    /\ pc = "loaded"
    /\ \/ /\ HasColumn(raw_csv, "latitude")
          /\ HasColumn(raw_csv, "longitude")
          /\ pc' = "h3"
          /\ df' = add_h3_features(df)
       \/ /\ \/ df = <<>>
             \/ ~HasColumn(raw_csv, "latitude")
             \/ ~HasColumn(raw_csv, "longitude")
          /\ pc' = "failed"
          /\ UNCHANGED df
    /\ UNCHANGED <<raw_csv, demand_df, features_df, hexagon_df,
                   features_csv, hexagon_csv>>
    /\ UNCHANGED <<service_vars, run_vars, trainer_vars, data_vars>>

(* Step 3: df["observationDateTime"] raises KeyError when missing *)
StepTime ==
    /\ pc = "h3"
    /\ IF ~HasColumn(raw_csv, "observationDateTime")
       THEN /\ pc' = "failed"
            /\ UNCHANGED df
       ELSE /\ pc' = "time"
            /\ df' = add_time_features(df)
    /\ UNCHANGED <<raw_csv, demand_df, features_df, hexagon_df,
                   features_csv, hexagon_csv>>
    /\ UNCHANGED <<service_vars, run_vars, trainer_vars, data_vars>>

(* Step 4: the aggregation of license_plate raises KeyError when missing *)
StepAggregate ==
    /\ pc = "time"
    /\ IF ~HasColumn(raw_csv, "license_plate")
       THEN /\ pc' = "failed"
            /\ UNCHANGED demand_df
       ELSE /\ pc' = "aggregated"
            /\ demand_df' = aggregate_demand(df)
    /\ UNCHANGED <<raw_csv, df, features_df, hexagon_df,
                   features_csv, hexagon_csv>>
    /\ UNCHANGED <<service_vars, run_vars, trainer_vars, data_vars>>

StepLag ==
    /\ pc = "aggregated"
    /\ pc' = "lagged"
    /\ features_df' = add_lag_features(demand_df)
    /\ UNCHANGED <<raw_csv, df, demand_df, hexagon_df,
                   features_csv, hexagon_csv>>
    /\ UNCHANGED <<service_vars, run_vars, trainer_vars, data_vars>>

StepMapping ==
    /\ pc = "lagged"
    /\ pc' = "mapped"
    /\ hexagon_df' = create_hexagon_mapping(features_df)
    /\ UNCHANGED <<raw_csv, df, demand_df, features_df,
                   features_csv, hexagon_csv>>
    /\ UNCHANGED <<service_vars, run_vars, trainer_vars, data_vars>>

StepSave ==
    /\ pc = "mapped"
    /\ pc' = "done"
    /\ features_csv' = to_csv(features_csv, features_df)
    /\ hexagon_csv' = to_csv(hexagon_csv, hexagon_df)
    /\ UNCHANGED <<raw_csv, df, demand_df, features_df, hexagon_df>>
    /\ UNCHANGED <<service_vars, run_vars, trainer_vars, data_vars>>

PipelineNext ==
    \/ StepLoad
    \/ StepH3
    \/ StepTime
    \/ StepAggregate
    \/ StepLag
    \/ StepMapping
    \/ StepSave


----------------------------------------------------------------------------
(* Properties of the feature pipeline *)

Aggregated == pc \in {"aggregated", "lagged", "mapped", "done"}

Lagged == pc \in {"lagged", "mapped", "done"}

ObsCell(o) == latlng_to_cell(o.latitude, o.longitude, H3_RESOLUTION)

ObsHour(o) == dt_floor_H(o.observationDateTime)

(* The observations of the raw table in cell c and hour h *)
ObsAt(c, h) ==
    {i \in 1..Len(raw_csv.rows) :
        ObsCell(raw_csv.rows[i]) = c /\ ObsHour(raw_csv.rows[i]) = h}

OnDuty(i) == raw_csv.rows[i].serviceOnDuty = "YES"

HasPlate(i) == raw_csv.rows[i].license_plate # NaN

CellsOf(t) == {t[i].h3_index : i \in 1..Len(t)}

CellRows(t, c) == SelectSeq(t, LAMBDA r : r.h3_index = c)

(* The records of cell c, numbered from 1 in increasing datetime_hour order *)
CellHistory(t, c) ==
    SortSeq(CellRows(t, c), LAMBDA a, b : a.datetime_hour < b.datetime_hour)

Min(a, b) == IF a < b THEN a ELSE b

RECURSIVE CountSum(_, _, _)
CountSum(h, lo, hi) ==
    IF lo > hi THEN 0 ELSE h[hi].demand_count + CountSum(h, lo, hi - 1)

(* C1: the lag and rolling features of a cell's records are computed from  *)
(* that cell's records alone, in strictly increasing datetime_hour order:  *)
(* they are the features the cell's records get when every other cell is   *)
(* removed from the table.                                                 *)
C1_FeaturesFromOwnCell ==
    \A c \in CellsOf(features_df) :
        LET own == CellRows(features_df, c)
        IN  /\ own = add_lag_features(CellRows(demand_df, c))
            /\ \A i \in 1..(Len(own) - 1) :
                   own[i].datetime_hour < own[i + 1].datetime_hour

(* C1 witness: two cells follow each other in the table, the first record  *)
(* of the second cell has no lag although the row before it has demand,    *)
(* and the raw table interleaves the two cells.                            *)
C1_Witness ==
    /\ Lagged
    /\ \E i \in 2..Len(features_df) :
          /\ features_df[i].h3_index # features_df[i - 1].h3_index
          /\ features_df[i - 1].demand_count > 0
          /\ features_df[i].demand_lag_1h = 0
          /\ features_df[i].demand_rolling_3h.num = features_df[i].demand_count
    /\ \E j \in 1..Len(features_df) : features_df[j].demand_lag_1h > 0
    /\ \E a, b, d \in 1..Len(raw_csv.rows) :
          /\ a < b /\ b < d
          /\ ObsCell(raw_csv.rows[a]) = ObsCell(raw_csv.rows[d])
          /\ ObsCell(raw_csv.rows[a]) # ObsCell(raw_csv.rows[b])
          /\ OnDuty(a) /\ OnDuty(b) /\ OnDuty(d)

(* C2: every demand record traces back to an observation of its cell and   *)
(* hour, and so has demand_count >= 1.                                     *)
C2_RecordHasObservation ==
    \A n \in 1..Len(demand_df) :
        /\ ObsAt(demand_df[n].h3_index, demand_df[n].datetime_hour) # {}
        /\ demand_df[n].demand_count >= 1

C4_OneRecordPerCellHour ==
    \A m, n \in 1..Len(demand_df) :
        /\ dt_floor_H(demand_df[m].datetime_hour) = demand_df[m].datetime_hour
        /\ (/\ demand_df[m].h3_index = demand_df[n].h3_index
            /\ demand_df[m].datetime_hour = demand_df[n].datetime_hour) => m = n

(* C4 witness: observations at different positions and different times of  *)
(* one hour were merged into one record.                                   *)
C4_Witness ==
    /\ Aggregated
    /\ \E i, j \in 1..Len(raw_csv.rows) :
          /\ OnDuty(i) /\ OnDuty(j) /\ HasPlate(i) /\ HasPlate(j)
          /\ ObsCell(raw_csv.rows[i]) = ObsCell(raw_csv.rows[j])
          /\ ObsHour(raw_csv.rows[i]) = ObsHour(raw_csv.rows[j])
          /\ raw_csv.rows[i].observationDateTime
                 # raw_csv.rows[j].observationDateTime
          /\ raw_csv.rows[i].longitude # raw_csv.rows[j].longitude
    /\ \E n \in 1..Len(demand_df) : demand_df[n].demand_count >= 2

(* The lag features of a record *)
LagOf(r, k) ==
    CASE k = LAG_1H  -> r.demand_lag_1h
      [] k = LAG_24H -> r.demand_lag_24h
      [] OTHER       -> r.demand_lag_168h

Lags == {LAG_1H, LAG_24H, LAG_168H}

DemandAt(t, c, ts) ==
    IF \E i \in 1..Len(t) : t[i].h3_index = c /\ t[i].datetime_hour = ts
    THEN LET i == CHOOSE i \in 1..Len(t) :
                      t[i].h3_index = c /\ t[i].datetime_hour = ts
         IN  t[i].demand_count
    ELSE 0

(* C6: demand_lag_1h of the record of (cell, hour t) is the demand of the  *)
(* cell in hour t-1, demand_lag_24h that of hour t-24 and demand_lag_168h  *)
(* that of hour t-168.                                                     *)
C6_LagIsPreviousHour ==
    \A i \in 1..Len(features_df) : \A k \in Lags :
        LagOf(features_df[i], k)
            = DemandAt(features_df, features_df[i].h3_index,
                       features_df[i].datetime_hour - (k * TicksPerHour))

(* The rolling features of a record *)
RollingOf(r, w) ==
    IF w = ROLLING_3H THEN r.demand_rolling_3h ELSE r.demand_rolling_24h

Windows == {ROLLING_3H, ROLLING_24H}

(* C7: the rolling-w feature of the n-th record of a cell is the mean of   *)
(* the demand_count of the min(n, w) records of the cell ending at record  *)
(* n; it is never missing, and lies between the least and the greatest of  *)
(* those counts.                                                           *)
C7_RollingIsWindowMean ==
    \A c \in CellsOf(features_df) :
        LET h == CellHistory(features_df, c)
        IN  \A n \in 1..Len(h) : \A w \in Windows :
                LET m == Min(n, w)
                    f == RollingOf(h[n], w)
                IN  /\ f.den > 0
                    /\ f.num * m = CountSum(h, (n - m) + 1, n) * f.den
                    /\ \E a \in ((n - m) + 1)..n :
                           h[a].demand_count * f.den <= f.num
                    /\ \E b \in ((n - m) + 1)..n :
                           f.num <= h[b].demand_count * f.den
                    /\ (n = 1 => f.num = h[1].demand_count * f.den)

(* C7 witness: a cell with more than ROLLING_24H records whose two rolling *)
(* means differ and are no whole numbers.                                  *)
C7_Witness ==
    /\ Lagged
    /\ \E c \in CellsOf(features_df) :
          LET h == CellHistory(features_df, c)
          IN  /\ Len(h) > ROLLING_24H
              /\ \E n \in (ROLLING_24H + 1)..Len(h) :
                    LET f3 == h[n].demand_rolling_3h
                        f24 == h[n].demand_rolling_24h
                    IN  /\ f3.den = ROLLING_3H /\ f24.den = ROLLING_24H
                        /\ f3.num * f24.den # f24.num * f3.den
                        /\ f3.num % f3.den # 0
                        /\ f24.num % f24.den # 0

----------------------------------------------------------------------------
(* Prediction service.  Floats are counted in thousandths. *)

DEFAULT_MODEL_PATH == "D:/GitHub_Works/emergency-vehicle-mlops/data/models/xgboost_model.joblib"

LOCAL_MODEL_PATH == "data/models/xgboost_model.joblib"

ModelPaths == {DEFAULT_MODEL_PATH, LOCAL_MODEL_PATH}

(* MODEL_OUTPUT_PATH of train.py *)
MODEL_OUTPUT_PATH == "D:/GitHub_Works/emergency-vehicle-mlops/data/models/xgboost_model.joblib"

None == "None"

(* Regressors whose trees never split: the output is one leaf value, in   *)
(* thousandths, whatever the features                                     *)
StumpOutput ==
    ("stump-1.500" :> (0 - 1500)) @@ ("stump-0.004" :> (0 - 4))
    @@ ("stump0.000" :> 0) @@ ("stump0.996" :> 996) @@ ("stump0.999" :> 999)
    @@ ("stump1.000" :> 1000) @@ ("stump2.997" :> 2997)
    @@ ("stump3.000" :> 3000) @@ ("stump4.999" :> 4999)
    @@ ("stump5.000" :> 5000) @@ ("stump7.250" :> 7250)

Stumps == DOMAIN StumpOutput

(* The fitted regressors a model file can hold *)
Models == {"regressorA", "regressorB"} \cup Stumps

(* model.predict(features_df)[0] *)
ModelPredict(m, f) ==
    IF m = "regressorA"
    THEN ((130 * f.hour) + (2000 * f.is_weekend) + (3 * f.month)
          + ((f.demand_lag_1h + f.demand_lag_24h + f.demand_rolling_3h
              + f.demand_rolling_24h) \div 4)) - 1500
    ELSE IF m = "regressorB"
    THEN ((217 * f.hour) + (3001 * f.is_weekend) + f.demand_lag_1h) - (5 * f.month)
    ELSE StumpOutput[m]

(* MODEL_PATH of api/main.py *)
MODEL_PATH_main(env) == IF env = "unset" THEN DEFAULT_MODEL_PATH ELSE env

(* MODEL_PATH of run_api.py *)
MODEL_PATH_run_api(files) ==
    IF files[LOCAL_MODEL_PATH] # None THEN LOCAL_MODEL_PATH ELSE DEFAULT_MODEL_PATH

(* try: model = joblib.load(MODEL_PATH); except Exception: model = None *)
load_model(files, path) == IF files[path] \in Models THEN files[path] ELSE None

PLACEHOLDER_LAG == 1000

H3_RESOLUTION_main == 8

H3_RESOLUTION_run_api == 8

LAT_MIN == 128
LAT_MAX == 132
LON_MIN == 774
LON_MAX == 778

(* The fields of PredictionRequest, all required: Field(...) *)
RequestFields == {"latitude", "longitude", "hour", "day_of_week", "month"}

(* Mutant: the constraint on month is forgotten *)
ValidRequest_any_month(r) ==
    /\ RequestFields \subseteq DOMAIN r
    /\ r.latitude >= LAT_MIN /\ r.latitude <= LAT_MAX
    /\ r.longitude >= LON_MIN /\ r.longitude <= LON_MAX
    /\ r.hour >= 0 /\ r.hour <= 23
    /\ r.day_of_week >= 0 /\ r.day_of_week <= 6

(* Field constraints of PredictionRequest *)
ValidRequest(r) ==
    /\ RequestFields \subseteq DOMAIN r
    /\ r.latitude >= LAT_MIN /\ r.latitude <= LAT_MAX
    /\ r.longitude >= LON_MIN /\ r.longitude <= LON_MAX
    /\ r.hour >= 0 /\ r.hour <= 23
    /\ r.day_of_week >= 0 /\ r.day_of_week <= 6
    /\ r.month >= 1 /\ r.month <= 12

(* Field constraints of PredictionRequest of run_api.py *)
ValidRequest_run_api(r) ==
    /\ RequestFields \subseteq DOMAIN r
    /\ r.latitude >= LAT_MIN /\ r.latitude <= LAT_MAX
    /\ r.longitude >= LON_MIN /\ r.longitude <= LON_MAX
    /\ r.hour >= 0 /\ r.hour <= 23
    /\ r.day_of_week >= 0 /\ r.day_of_week <= 6
    /\ r.month >= 1 /\ r.month <= 12

(* Mutant: the thresholds belong to the lower label *)
get_demand_level_inclusive(demand) ==
    IF demand <= 1000 THEN "LOW"
    ELSE IF demand <= 3000 THEN "MEDIUM"
    ELSE IF demand <= 5000 THEN "HIGH"
    ELSE "CRITICAL"

get_demand_level(demand) ==
    IF demand < 1000 THEN "LOW"
    ELSE IF demand < 3000 THEN "MEDIUM"
    ELSE IF demand < 5000 THEN "HIGH"
    ELSE "CRITICAL"

(* get_demand_level of run_api.py *)
get_demand_level_run_api(demand) ==
    IF demand < 1000 THEN "LOW"
    ELSE IF demand < 3000 THEN "MEDIUM"
    ELSE IF demand < 5000 THEN "HIGH"
    ELSE "CRITICAL"

(* Mutant: the lag of the request's own place is looked up *)
prepare_features_from_place(request) ==
    [hour |-> request.hour,
     day_of_week |-> request.day_of_week,
     is_weekend |-> IF request.day_of_week >= 5 THEN 1 ELSE 0,
     month |-> request.month,
     demand_lag_1h |-> PLACEHOLDER_LAG * (request.latitude - LAT_MIN),
     demand_lag_24h |-> PLACEHOLDER_LAG,
     demand_rolling_3h |-> PLACEHOLDER_LAG,
     demand_rolling_24h |-> PLACEHOLDER_LAG]

prepare_features(request) ==
    [hour |-> request.hour,
     day_of_week |-> request.day_of_week,
     is_weekend |-> IF request.day_of_week >= 5 THEN 1 ELSE 0,
     month |-> request.month,
     demand_lag_1h |-> PLACEHOLDER_LAG,
     demand_lag_24h |-> PLACEHOLDER_LAG,
     demand_rolling_3h |-> PLACEHOLDER_LAG,
     demand_rolling_24h |-> PLACEHOLDER_LAG]

(* The columns of the frame prepare_features returns, in the order of the *)
(* keys of its dict                                                       *)
FEATURE_NAMES_main ==
    <<"hour", "day_of_week", "is_weekend", "month", "demand_lag_1h",
      "demand_lag_24h", "demand_rolling_3h", "demand_rolling_24h">>

(* Mutant: run_api.py lists month before is_weekend *)
FEATURE_NAMES_run_api_month_first ==
    <<"hour", "day_of_week", "month", "is_weekend", "demand_lag_1h",
      "demand_lag_24h", "demand_rolling_3h", "demand_rolling_24h">>

(* The same for prepare_features of run_api.py *)
FEATURE_NAMES_run_api ==
    <<"hour", "day_of_week", "is_weekend", "month", "demand_lag_1h",
      "demand_lag_24h", "demand_rolling_3h", "demand_rolling_24h">>

(* Mutant: run_api.py fills the lags with 0.0 *)
prepare_features_run_api_zero_lags(request) ==
    [hour |-> request.hour,
     day_of_week |-> request.day_of_week,
     is_weekend |-> IF request.day_of_week >= 5 THEN 1 ELSE 0,
     month |-> request.month,
     demand_lag_1h |-> 0,
     demand_lag_24h |-> 0,
     demand_rolling_3h |-> 0,
     demand_rolling_24h |-> 0]

(* prepare_features of run_api.py *)
prepare_features_run_api(request) ==
    [hour |-> request.hour,
     day_of_week |-> request.day_of_week,
     is_weekend |-> IF request.day_of_week >= 5 THEN 1 ELSE 0,
     month |-> request.month,
     demand_lag_1h |-> PLACEHOLDER_LAG,
     demand_lag_24h |-> PLACEHOLDER_LAG,
     demand_rolling_3h |-> PLACEHOLDER_LAG,
     demand_rolling_24h |-> PLACEHOLDER_LAG]

(* max(0, prediction) *)
max0(x) == IF x > 0 THEN x ELSE 0

(* round(prediction, 2): to the nearest hundredth, ties to even *)
round2(x) ==
    LET q == x \div 10
        r == x % 10
    IN  IF r < 5 THEN q * 10
        ELSE IF r > 5 THEN (q + 1) * 10
        ELSE IF q % 2 = 0 THEN q * 10 ELSE (q + 1) * 10

NoFeatures == [hour |-> 0 - 1]

(* What a request did: the endpoint, the request, whether a cell was       *)
(* resolved and the model invoked, the features given to the model, what   *)
(* the model returned (output), the value the handler derived the level    *)
(* from (prediction), and the answer.                                      *)
Handled(endpoint, request, resolved, features, code, body) ==
    [endpoint |-> endpoint, request |-> request, resolved |-> resolved,
     invoked |-> features # NoFeatures, features |-> features,
     output |-> 0, prediction |-> 0,
     status_code |-> code, body |-> body]

(* A prediction that was answered *)
Predicted(request, features, output, prediction, body) ==
    [Handled("predict", request, TRUE, features, 200, body)
        EXCEPT !.output = output, !.prediction = prediction]

NoRequest == [hour |-> 0 - 1]

Nothing == Handled("none", NoRequest, FALSE, NoFeatures, 0, [detail |-> "none"])

(* Mutant: the model is checked after the cell is resolved *)
predict_demand_late_check(mdl, request) ==
    Handled("predict", request, TRUE, NoFeatures,
            IF mdl = None THEN 503 ELSE 200,
            [detail |-> "Model not loaded"])

(* Mutant: the prediction is not clamped at 0 *)
predict_demand_unclamped(mdl, request) ==
    IF mdl = None
    THEN Handled("predict", request, FALSE, NoFeatures, 503,
                 [detail |-> "Model not loaded"])
    ELSE LET h3_index == latlng_to_cell(request.latitude, request.longitude,
                                        H3_RESOLUTION_main)
             features_in == prepare_features(request)
             output == ModelPredict(mdl, features_in)
             prediction == output
             demand_level == get_demand_level(prediction)
         IN  Predicted(request, features_in, output, prediction,
                     [h3_index |-> h3_index,
                      predicted_demand |-> round2(prediction),
                      demand_level |-> demand_level,
                      latitude |-> request.latitude,
                      longitude |-> request.longitude,
                      hour |-> request.hour,
                      day_of_week |-> request.day_of_week])

(* POST /predict of api/main.py *)
predict_demand_main(mdl, request) ==
    IF mdl = None
    THEN Handled("predict", request, FALSE, NoFeatures, 503,
                 [detail |-> "Model not loaded"])
    ELSE LET h3_index == latlng_to_cell(request.latitude, request.longitude,
                                        H3_RESOLUTION_main)
             features_in == prepare_features(request)
             output == ModelPredict(mdl, features_in)
             prediction == max0(output)
             demand_level == get_demand_level(prediction)
         IN  Predicted(request, features_in, output, prediction,
                     [h3_index |-> h3_index,
                      predicted_demand |-> round2(prediction),
                      demand_level |-> demand_level,
                      latitude |-> request.latitude,
                      longitude |-> request.longitude,
                      hour |-> request.hour,
                      day_of_week |-> request.day_of_week])

(* Mutant: run_api.py resolves the cell at the finer resolution 9 *)
predict_demand_run_api_res9(mdl, request) ==
    IF mdl = None
    THEN Handled("predict", request, FALSE, NoFeatures, 503,
                 [detail |-> "Model not loaded"])
    ELSE LET h3_index == latlng_to_cell(request.latitude, request.longitude, 9)
             features_in == prepare_features_run_api(request)
             output == ModelPredict(mdl, features_in)
             prediction == max0(output)
             demand_level == get_demand_level_run_api(prediction)
         IN  Predicted(request, features_in, output, prediction,
                     [h3_index |-> h3_index,
                      predicted_demand |-> round2(prediction),
                      demand_level |-> demand_level,
                      latitude |-> request.latitude,
                      longitude |-> request.longitude,
                      hour |-> request.hour,
                      day_of_week |-> request.day_of_week])

(* POST /predict of run_api.py *)
predict_demand_run_api(mdl, request) ==
    IF mdl = None
    THEN Handled("predict", request, FALSE, NoFeatures, 503,
                 [detail |-> "Model not loaded"])
    ELSE LET h3_index == latlng_to_cell(request.latitude, request.longitude,
                                        H3_RESOLUTION_run_api)
             features_in == prepare_features_run_api(request)
             output == ModelPredict(mdl, features_in)
             prediction == max0(output)
             demand_level == get_demand_level_run_api(prediction)
         IN  Predicted(request, features_in, output, prediction,
                     [h3_index |-> h3_index,
                      predicted_demand |-> round2(prediction),
                      demand_level |-> demand_level,
                      latitude |-> request.latitude,
                      longitude |-> request.longitude,
                      hour |-> request.hour,
                      day_of_week |-> request.day_of_week])

(* Mutant: the health check reports the service, not the model *)
health_check_always_loaded(mdl) ==
    Handled("health", NoRequest, FALSE, NoFeatures, 200,
            [status |-> "healthy", model_loaded |-> TRUE])

(* GET /health of api/main.py *)
health_check(mdl) ==
    Handled("health", NoRequest, FALSE, NoFeatures, 200,
            [status |-> IF mdl # None THEN "healthy" ELSE "unhealthy",
             model_loaded |-> mdl # None])

(* Mutant: the status does not look at the model *)
health_check_run_api_always_healthy(mdl) ==
    Handled("health", NoRequest, FALSE, NoFeatures, 200,
            [status |-> "healthy", model_loaded |-> mdl # None])

(* GET /health of run_api.py *)
health_check_run_api(mdl) ==
    Handled("health", NoRequest, FALSE, NoFeatures, 200,
            [status |-> IF mdl # None THEN "healthy" ELSE "unhealthy",
             model_loaded |-> mdl # None])

(* GET / of api/main.py *)
root ==
    Handled("root", NoRequest, FALSE, NoFeatures, 200,
            [message |-> "Ambulance Demand Prediction API",
             docs |-> "/docs", health |-> "/health"])

(* GET / of run_api.py *)
root_run_api ==
    Handled("root", NoRequest, FALSE, NoFeatures, 200,
            [message |-> "Ambulance Demand Prediction API",
             docs |-> "/docs", health |-> "/health"])

(* The answer to a body that violates the field constraints *)
Rejected(request) ==
    Handled("predict", request, FALSE, NoFeatures, 422,
            [detail |-> "validation error"])

(* The application of api/main.py: the route, the validation of the body, *)
(* the handler                                                             *)
app_main(mdl, endpoint, request) ==
    CASE endpoint = "predict" ->
            IF ValidRequest(request) THEN predict_demand_main(mdl, request)
            ELSE Rejected(request)
      [] endpoint = "health" -> health_check(mdl)
      [] OTHER -> root

(* The application of run_api.py *)
app_run_api(mdl, endpoint, request) ==
    CASE endpoint = "predict" ->
            IF ValidRequest_run_api(request)
            THEN predict_demand_run_api(mdl, request)
            ELSE Rejected(request)
      [] endpoint = "health" -> health_check_run_api(mdl)
      [] OTHER -> root_run_api

(* The application of the server that is run *)
app(srv, mdl, endpoint, request) ==
    IF srv = "main" THEN app_main(mdl, endpoint, request)
    ELSE app_run_api(mdl, endpoint, request)

(* The requests sent to the service: places inside and outside the        *)
(* bounding box, and one hour outside the day                              *)
RequestPlaces == {<<129, 774>>, <<130, 777>>, <<133, 774>>}

(* Requests on the limits of every field *)
CornerRequests ==
    { [latitude |-> 128, longitude |-> 778, hour |-> 0, day_of_week |-> 0,
       month |-> 1],
      [latitude |-> 132, longitude |-> 774, hour |-> 23, day_of_week |-> 6,
       month |-> 12] }

(* Requests with one field just outside its limits *)
OutsideRequests ==
    LET r == [latitude |-> 132, longitude |-> 778, hour |-> 23,
              day_of_week |-> 6, month |-> 12]
    IN  { [r EXCEPT !.latitude = 127], [r EXCEPT !.longitude = 773],
          [r EXCEPT !.longitude = 779], [r EXCEPT !.hour = 0 - 1],
          [r EXCEPT !.day_of_week = 7], [r EXCEPT !.day_of_week = 0 - 1],
          [r EXCEPT !.month = 0], [r EXCEPT !.month = 13] }

(* Requests that lack one field *)
PartialRequests ==
    LET r == [latitude |-> 129, longitude |-> 774, hour |-> 0,
              day_of_week |-> 4, month |-> 1]
    IN  { [f \in RequestFields \ {g} |-> r[f]] : g \in RequestFields }

Requests ==
    { [latitude |-> pl[1], longitude |-> pl[2], hour |-> h,
       day_of_week |-> d, month |-> m] :
        pl \in RequestPlaces, h \in {0, 23}, d \in {4, 5}, m \in {1, 12} }
    \cup { [latitude |-> 129, longitude |-> 774, hour |-> 24,
            day_of_week |-> 5, month |-> 12] }
    \cup CornerRequests
    \cup OutsideRequests
    \cup PartialRequests

ServiceStart ==
    /\ model_files \in { [p \in ModelPaths |->
                             IF p = DEFAULT_MODEL_PATH THEN a ELSE b] :
                          a \in {None} \cup Models, b \in {None, "regressorB"} }
    /\ env_MODEL_PATH \in {"unset", LOCAL_MODEL_PATH}
    /\ server \in {"main", "run_api"}
    /\ svc = "stopped"
    /\ model = None
    /\ last = Nothing
    /\ prev = Nothing

(* Importing the server module loads the model *)
StartService ==
    /\ svc = "stopped"
    /\ svc' = "running"
    /\ model' = IF server = "main"
                THEN load_model(model_files, MODEL_PATH_main(env_MODEL_PATH))
                ELSE load_model(model_files, MODEL_PATH_run_api(model_files))
    /\ UNCHANGED <<model_files, env_MODEL_PATH, server, last, prev>>
    /\ UNCHANGED <<pipeline_vars, run_vars, trainer_vars, data_vars>>

(* The request record of the latest answered prediction moves to prev *)
Answer(h) ==
    /\ last' = h
    /\ prev' = IF last.endpoint = "predict" /\ last.status_code = 200
               THEN last ELSE prev

(* POST /predict: a body that violates the field constraints is rejected  *)
(* with 422 before the handler runs                                       *)
Predict ==
    /\ svc = "running"
    /\ \E request \in Requests :
          Answer(app(server, model, "predict", request))
    /\ UNCHANGED <<model_files, env_MODEL_PATH, server, svc, model>>
    /\ UNCHANGED <<pipeline_vars, run_vars, trainer_vars, data_vars>>

Health ==
    /\ svc = "running"
    /\ Answer(app(server, model, "health", NoRequest))
    /\ UNCHANGED <<model_files, env_MODEL_PATH, server, svc, model>>
    /\ UNCHANGED <<pipeline_vars, run_vars, trainer_vars, data_vars>>

Root ==
    /\ svc = "running"
    /\ Answer(app(server, model, "root", NoRequest))
    /\ UNCHANGED <<model_files, env_MODEL_PATH, server, svc, model>>
    /\ UNCHANGED <<pipeline_vars, run_vars, trainer_vars, data_vars>>

(* save_model of the trainer: joblib.dump(model, MODEL_OUTPUT_PATH) *)
save_model(files, m) == [files EXCEPT ![MODEL_OUTPUT_PATH] = m]

SaveModel ==
    /\ \E m \in {"regressorA", "regressorB"} :
          /\ model_files[DEFAULT_MODEL_PATH] # m
          /\ model_files' = save_model(model_files, m)
    /\ UNCHANGED <<env_MODEL_PATH, server, svc, model, last, prev>>
    /\ UNCHANGED <<pipeline_vars, run_vars, trainer_vars, data_vars>>

ServiceNext ==
    \/ StartService
    \/ Predict
    \/ Health
    \/ Root
    \/ SaveModel

----------------------------------------------------------------------------
(* Tables read by the validator *)

(* Columns read as numbers; a missing number is NullNumber.  A timestamp   *)
(* cell holds a tick, or NotADate for a text that is no timestamp.         *)
NumericColumns == {"observationDateTime", "longitude", "latitude"}

NullNumber == 0 - 999

NotADate == 0 - 1

isnull(c, v) == IF c \in NumericColumns THEN v = NullNumber ELSE v = NaN

(* Texts that read_csv takes for a missing value *)
NA_VALUES == {"", "#N/A", "N/A", "NA", "NULL", "NaN", "None", "n/a", "nan", "null"}

(* pd.read_csv of an existing file *)
read_csv(f) ==
    Table(f.columns,
          [i \in 1..Len(f.rows) |->
              [c \in f.columns |->
                  IF c \notin NumericColumns /\ f.rows[i][c] \in NA_VALUES
                  THEN NaN ELSE f.rows[i][c]]])

----------------------------------------------------------------------------
(* Data generator (src/data/generate_data.py) *)

MaxRecords == 2         \* records of a generated dataset

LAT_MIN_generate == 128
LAT_MAX_generate == 132
LON_MIN_generate == 774
LON_MAX_generate == 778

NUM_DAYS == 30

(* Two of the hotspots, in tenths of a degree *)
HOTSPOTS ==
    <<[name |-> "Whitefield", lat |-> 130, lon |-> 778],
      [name |-> "Electronic City", lat |-> 128, lon |-> 777]>>

Max(a, b) == IF a > b THEN a ELSE b

(* Mutant: the location is not brought back into the bounding box *)
generate_location_unclamped(near, hotspot, noise_lat, noise_lon, u_lat, u_lon) ==
    IF near THEN <<hotspot.lat + noise_lat, hotspot.lon + noise_lon>>
    ELSE <<u_lat, u_lon>>

(* generate_location: near is random.random() < 0.7, hotspot the weighted  *)
(* choice, noise_* the gauss draws, u_* the uniform draws                  *)
generate_location(near, hotspot, noise_lat, noise_lon, u_lat, u_lon) ==
    LET lat == IF near THEN hotspot.lat + noise_lat ELSE u_lat
        lon == IF near THEN hotspot.lon + noise_lon ELSE u_lon
    IN  <<Max(LAT_MIN_generate, Min(LAT_MAX_generate, lat)),
          Max(LON_MIN_generate, Min(LON_MAX_generate, lon))>>

(* generate_datetime on day day: hour and the time inside the hour *)
generate_datetime(day, hour, tick) ==
    (((day * 24) + hour) * TicksPerHour) + tick

(* generate_service_status: on_duty is random.random() < 0.85 *)
generate_service_status(on_duty) == IF on_duty THEN "YES" ELSE "NO"

(* The fleet: license plates and support types *)
Ambulances ==
    <<[license_plate |-> "KA01A1000", vehicleSupportType |-> "BLS"],
      [license_plate |-> "KA51Y9999", vehicleSupportType |-> "Patient Transport"]>>

(* The record dict of generate_ambulance_data *)
GeneratedRecord(ambulance, loc, obs_datetime, status) ==
    [emergencyVehicleType |-> "Ambulance",
     license_plate |-> ambulance.license_plate,
     vehicleSupportType |-> ambulance.vehicleSupportType,
     observationDateTime |-> obs_datetime,
     longitude |-> loc[2],
     latitude |-> loc[1],
     serviceOnDuty |-> status]

GeneratedColumns ==
    {"emergencyVehicleType", "license_plate", "vehicleSupportType",
     "observationDateTime", "longitude", "latitude", "serviceOnDuty"}

(* The locations generate_location returns for noise of a tenth of a      *)
(* degree around a hotspot, and for uniform draws at two corners of the    *)
(* bounding box                                                            *)
GeneratedLocations ==
    { generate_location(TRUE, HOTSPOTS[n], a, a, 0, 0) :
        n \in 1..Len(HOTSPOTS), a \in {0 - 1, 0, 1} }
    \cup { generate_location(FALSE, HOTSPOTS[1], 0, 0, u[1], u[2]) :
             u \in {<<LAT_MIN_generate, LON_MIN_generate>>,
                    <<LAT_MAX_generate, LON_MAX_generate>>} }

GeneratorStart ==
    /\ gpc = "generating"
    /\ records = <<>>
    /\ generated_csv = NoFile

(* One turn of the inner loop of generate_ambulance_data *)
GenerateRecord ==
    /\ gpc = "generating"
    /\ Len(records) < MaxRecords
    /\ \E k \in 1..Len(Ambulances), loc \in GeneratedLocations,
          on_duty \in BOOLEAN :
          records' = Append(records,
              GeneratedRecord(Ambulances[k], loc,
                              IF k = 1 THEN generate_datetime(NUM_DAYS - 1, 23, 1)
                              ELSE generate_datetime(0, 0, 0),
                              generate_service_status(on_duty)))
    /\ UNCHANGED <<gpc, generated_csv, vpc, results, returned>>
    /\ UNCHANGED <<pipeline_vars, service_vars, run_vars, trainer_vars>>

(* The end of the loops: the frame is sorted by observationDateTime and    *)
(* save_data writes it at OUTPUT_PATH; the file at RAW_DATA_PATH changes   *)
(* when that is the same path                                              *)
SaveData ==
    /\ gpc = "generating"
    /\ records # <<>>
    /\ gpc' = "done"
    /\ LET written ==
              Table(GeneratedColumns,
                    SortSeq(records, LAMBDA a, b :
                                a.observationDateTime < b.observationDateTime))
       IN  /\ generated_csv' = written
           /\ raw_csv' = IF OUTPUT_PATH = RAW_DATA_PATH THEN written ELSE raw_csv
    /\ UNCHANGED <<records, vpc, results, returned>>
    /\ UNCHANGED <<pc, df, demand_df, features_df, hexagon_df, features_csv,
                   hexagon_csv>>
    /\ UNCHANGED <<service_vars, run_vars, trainer_vars>>

GeneratorNext == GenerateRecord \/ SaveData

----------------------------------------------------------------------------
(* Validator (src/data/validate_date.py).  Its DATA_PATH is the            *)
(* RAW_DATA_PATH of the feature pipeline: it reads raw_csv.                *)

MaxRows == 2            \* rows of a table given to the validator

LAT_MIN_validate == 128
LAT_MAX_validate == 132
LON_MIN_validate == 774
LON_MAX_validate == 778

ENOUGH_RECORDS == 1000

EXPECTED_COLUMNS ==
    <<"emergencyVehicleType", "license_plate", "vehicleSupportType",
      "observationDateTime", "longitude", "latitude", "serviceOnDuty">>

ExpectedSet == {EXPECTED_COLUMNS[n] : n \in 1..Len(EXPECTED_COLUMNS)}

validate_file_exists(f) == f.exists

validate_columns(d) ==
    LET missing == SelectSeq(EXPECTED_COLUMNS, LAMBDA col : col \notin d.columns)
    IN  Len(missing) = 0

validate_no_nulls(d) ==
    LET total_nulls ==
            Cardinality({x \in (1..Len(d.rows)) \X d.columns :
                            isnull(x[2], d.rows[x[1]][x[2]])})
    IN  total_nulls = 0

validate_coordinates(d) ==
    LET lat_invalid == {i \in 1..Len(d.rows) :
                           ~(/\ d.rows[i].latitude >= LAT_MIN_validate
                             /\ d.rows[i].latitude <= LAT_MAX_validate)}
        lon_invalid == {i \in 1..Len(d.rows) :
                           ~(/\ d.rows[i].longitude >= LON_MIN_validate
                             /\ d.rows[i].longitude <= LON_MAX_validate)}
    IN  lat_invalid = {} /\ lon_invalid = {}

validate_vehicle_type(d) ==
    LET types == {d.rows[i].emergencyVehicleType : i \in 1..Len(d.rows)}
    IN  IF types = {"Ambulance"} THEN TRUE ELSE TRUE

validate_service_status(d) ==
    LET statuses == {d.rows[i].serviceOnDuty : i \in 1..Len(d.rows)}
        invalid == statuses \ {"YES", "NO"}
    IN  invalid = {}

(* pd.to_datetime inside try/except: a missing column and a text that is   *)
(* no timestamp are both caught; a missing value becomes NaT               *)
validate_datetime(d) ==
    /\ "observationDateTime" \in d.columns
    /\ \A i \in 1..Len(d.rows) : d.rows[i].observationDateTime # NotADate

(* Mutant: too few records fail the validation *)
validate_record_count_strict(d) ==
    IF Len(d.rows) >= ENOUGH_RECORDS THEN TRUE ELSE FALSE

validate_record_count(d) ==
    IF Len(d.rows) >= ENOUGH_RECORDS THEN TRUE ELSE TRUE

(* The checks of run_validation, in the order of their calls *)
CHECKS ==
    <<"Columns", "No Nulls", "Coordinates", "Vehicle Type", "Service Status",
      "Datetime", "Record Count">>

(* The columns a check indexes outside a try block: KeyError when missing *)
Indexed(check) ==
    CASE check = "Coordinates"    -> {"latitude", "longitude"}
      [] check = "Vehicle Type"   -> {"emergencyVehicleType"}
      [] check = "Service Status" -> {"serviceOnDuty"}
      [] OTHER                    -> {}

Check(check, d) ==
    CASE check = "Columns"        -> validate_columns(d)
      [] check = "No Nulls"       -> validate_no_nulls(d)
      [] check = "Coordinates"    -> validate_coordinates(d)
      [] check = "Vehicle Type"   -> validate_vehicle_type(d)
      [] check = "Service Status" -> validate_service_status(d)
      [] check = "Datetime"       -> validate_datetime(d)
      [] OTHER                    -> validate_record_count(d)

(* Rows of the tables given to the validator: a good row, and rows that    *)
(* differ from it in one cell                                              *)
GoodRow ==
    [emergencyVehicleType |-> "Ambulance", license_plate |-> "KA01A1000",
     vehicleSupportType |-> "BLS", observationDateTime |-> 0,
     longitude |-> LON_MAX_validate, latitude |-> LAT_MIN_validate,
     serviceOnDuty |-> "YES", notes |-> "ok"]

DataRows ==
    {GoodRow,
     [GoodRow EXCEPT !.serviceOnDuty = "NO", !.observationDateTime = 5],
     [GoodRow EXCEPT !.emergencyVehicleType = "FireEngine"],
     [GoodRow EXCEPT !.license_plate = NaN],
     [GoodRow EXCEPT !.vehicleSupportType = "NA"],
     [GoodRow EXCEPT !.notes = NaN],
     [GoodRow EXCEPT !.latitude = LAT_MIN_validate - 1],
     [GoodRow EXCEPT !.longitude = LON_MAX_validate + 1],
     [GoodRow EXCEPT !.serviceOnDuty = "MAYBE"],
     [GoodRow EXCEPT !.observationDateTime = NotADate]}

(* The headers: all expected columns, one more, or one fewer *)
DataHeaders ==
    {ExpectedSet, ExpectedSet \cup {"notes"}}
    \cup {ExpectedSet \ {col} : col \in ExpectedSet}

Project(t, cols) == [i \in 1..Len(t) |-> [c \in cols |-> t[i][c]]]

DataFiles ==
    {Table(cols, Project(t, cols)) :
        cols \in DataHeaders, t \in TablesUpTo(DataRows, MaxRows)}
    \cup {NoFile}

ValidatorStart ==
    /\ raw_csv \in DataFiles
    /\ vpc = "start"
    /\ results = <<>>
    /\ returned = "none"

(* Check 1: without the file run_validation returns False at once *)
CheckFileExists ==
    /\ vpc = "start"
    /\ IF validate_file_exists(raw_csv)
       THEN vpc' = "found" /\ UNCHANGED returned
       ELSE vpc' = "returned" /\ returned' = "False"
    /\ UNCHANGED <<results, gpc, records, generated_csv>>
    /\ UNCHANGED <<pipeline_vars, service_vars, run_vars, trainer_vars>>

(* df = pd.read_csv(DATA_PATH) *)
LoadData ==
    /\ vpc = "found"
    /\ vpc' = "loaded"
    /\ UNCHANGED <<results, returned, gpc, records, generated_csv>>
    /\ UNCHANGED <<pipeline_vars, service_vars, run_vars, trainer_vars>>

(* results.append((name, check(df))): the n-th check of CHECKS *)
RunCheck(n) ==
    /\ vpc = IF n = 1 THEN "loaded" ELSE CHECKS[n - 1]
    /\ LET d == read_csv(raw_csv)
       IN  IF Indexed(CHECKS[n]) \subseteq d.columns
           THEN /\ vpc' = CHECKS[n]
                /\ results' = Append(results, <<CHECKS[n], Check(CHECKS[n], d)>>)
           ELSE /\ vpc' = "raised"
                /\ UNCHANGED results
    /\ UNCHANGED <<returned, gpc, records, generated_csv>>
    /\ UNCHANGED <<pipeline_vars, service_vars, run_vars, trainer_vars>>

ValidateColumns == RunCheck(1)

ValidateNoNulls == RunCheck(2)

ValidateCoordinates == RunCheck(3)

ValidateVehicleType == RunCheck(4)

ValidateServiceStatus == RunCheck(5)

ValidateDatetime == RunCheck(6)

ValidateRecordCount == RunCheck(7)

(* The summary: all_passed is returned *)
Summary ==
    /\ vpc = CHECKS[Len(CHECKS)]
    /\ vpc' = "returned"
    /\ returned' = IF \A n \in 1..Len(results) : results[n][2]
                   THEN "True" ELSE "False"
    /\ UNCHANGED <<results, gpc, records, generated_csv>>
    /\ UNCHANGED <<pipeline_vars, service_vars, run_vars, trainer_vars>>

ValidatorNext ==
    \/ CheckFileExists
    \/ LoadData
    \/ ValidateColumns
    \/ ValidateNoNulls
    \/ ValidateCoordinates
    \/ ValidateVehicleType
    \/ ValidateServiceStatus
    \/ ValidateDatetime
    \/ ValidateRecordCount
    \/ Summary

----------------------------------------------------------------------------
(* Reruns of the feature pipeline *)

MaxRuns == 2            \* runs of run_feature_engineering

(* The features table and the hexagon mapping computed from a raw table *)
FeaturesOf(t) ==
    add_lag_features(aggregate_demand(add_time_features(add_h3_features(
        load_raw_data(t)))))

MappingOf(t) == create_hexagon_mapping(FeaturesOf(t))

(* Columns of the raw table that run_feature_engineering indexes *)
RAW_COLUMNS ==
    {"serviceOnDuty", "latitude", "longitude", "observationDateTime",
     "license_plate"}

(* Raw tables of the reruns: two cells over two hours; one later           *)
(* observation; no vehicle on duty; the first table shifted by a day       *)
RunTables ==
    { <<Obs("KA01", 0, 1, "YES"), Obs("KA02", 1, 3, "YES"),
        Obs("KA01", TicksPerHour, 1, "YES"), Obs("KA02", TicksPerHour, 2, "NO")>>,
      <<Obs("KA03", 2 * TicksPerHour, 2, "YES")>>,
      <<Obs("KA01", 0, 1, "NO")>> }

(* The cells of a column the header lacks are never read *)
RunRawFiles ==
    {NoFile}
    \cup { File(t) : t \in RunTables }
    \cup { Table(RAW_COLUMNS \ {c},
                 <<Obs("KA01", 0, 1, "YES"), Obs("KA02", 1, 3, "NO")>>) :
             c \in RAW_COLUMNS }
    \cup { Table(RAW_COLUMNS \ {"latitude"}, <<Obs("KA01", 0, 1, "NO")>>) }

(* The output files an earlier run left *)
OldTable == <<Obs("KA09", 5 * TicksPerHour, 3, "YES"),
              Obs("KA09", 6 * TicksPerHour, 3, "YES")>>

FEATURE_COLUMNS_train ==
    <<"hour", "day_of_week", "is_weekend", "month", "demand_lag_1h",
      "demand_lag_24h", "demand_rolling_3h", "demand_rolling_24h">>

TARGET_COLUMN == "demand_count"

(* Columns of the features table that prepare_data selects *)
TRAIN_COLUMNS ==
    {FEATURE_COLUMNS_train[i] : i \in 1..Len(FEATURE_COLUMNS_train)}
    \cup {TARGET_COLUMN}

RunOldFiles ==
    { [features |-> NoFile, hexagon |-> NoFile],
      [features |-> File(FeaturesOf(OldTable)),
       hexagon |-> File(MappingOf(OldTable))] }
    \cup { [features |-> Table(TRAIN_COLUMNS \ {c}, FeaturesOf(OldTable)),
            hexagon |-> NoFile] : c \in {"demand_lag_1h", TARGET_COLUMN} }

(* The scripts are run one at a time *)
Stopped(p) == p \in {"idle", "done", "failed"}

RunsStart ==
    /\ raw_csv \in RunRawFiles
    /\ \E old \in RunOldFiles :
          /\ features_csv = old.features
          /\ hexagon_csv = old.hexagon
    /\ pc = "idle"
    /\ df = <<>>
    /\ demand_df = <<>>
    /\ features_df = <<>>
    /\ hexagon_df = <<>>
    /\ run = 0
    /\ before = [features |-> NoFile, hexagon |-> NoFile]
    /\ model_files \in { [p \in ModelPaths |->
                             IF p = DEFAULT_MODEL_PATH THEN a ELSE None] :
                          a \in {None, "regressorB"} }
    /\ env_MODEL_PATH = "unset"
    /\ server = "main"
    /\ svc = "idle"
    /\ model = None
    /\ last = Nothing
    /\ prev = Nothing
    /\ tpc = "idle"
    /\ fitted = None
    /\ model_before = None

(* python build_features.py: a new process, its locals are fresh *)
RunPipeline ==
    /\ Stopped(pc)
    /\ Stopped(tpc)
    /\ run < MaxRuns
    /\ pc' = "start"
    /\ run' = run + 1
    /\ before' = [features |-> features_csv, hexagon |-> hexagon_csv]
    /\ df' = <<>>
    /\ demand_df' = <<>>
    /\ features_df' = <<>>
    /\ hexagon_df' = <<>>
    /\ UNCHANGED <<raw_csv, features_csv, hexagon_csv>>
    /\ UNCHANGED <<service_vars, trainer_vars, data_vars>>

(* Between two runs the raw dataset is replaced *)
ReplaceRaw ==
    /\ Stopped(pc)
    /\ Stopped(tpc)
    /\ run < MaxRuns
    /\ \E f \in RunRawFiles :
          /\ f # raw_csv
          /\ raw_csv' = f
    /\ pc' = "idle"
    /\ df' = <<>>
    /\ demand_df' = <<>>
    /\ features_df' = <<>>
    /\ hexagon_df' = <<>>
    /\ UNCHANGED <<features_csv, hexagon_csv>>
    /\ UNCHANGED <<service_vars, run_vars, trainer_vars, data_vars>>

----------------------------------------------------------------------------
(* Trainer (src/data/models/train.py) *)

(* Mutant: the model file is written before the run is logged *)
TRAINING_STEPS_save_before_log ==
    <<"load_features", "prepare_data", "setup_mlflow", "train_model",
      "evaluate_model", "get_feature_importance", "save_model",
      "log_to_mlflow">>

(* The steps of run_training, in order *)
TRAINING_STEPS ==
    <<"load_features", "prepare_data", "setup_mlflow", "train_model",
      "evaluate_model", "get_feature_importance", "log_to_mlflow",
      "save_model">>

(* The step run_training takes after position p *)
Following(p) ==
    IF Stopped(p) THEN "none"
    ELSE IF p = "start" THEN TRAINING_STEPS[1]
    ELSE LET i == CHOOSE j \in 1..Len(TRAINING_STEPS) : TRAINING_STEPS[j] = p
         IN  IF i < Len(TRAINING_STEPS) THEN TRAINING_STEPS[i + 1] ELSE "return"

(* train_test_split(test_size=0.2) raises when the train set would be empty *)
train_test_split(t) == Len(t) >= 2

(* XGBRegressor.fit(X_train, y_train): the regressors a fit can give *)
Fits == {"regressorA", "regressorB"}

trainer_others ==
    <<pipeline_vars, env_MODEL_PATH, server, svc, model, last, prev,
      run_vars, data_vars>>

(* python train.py *)
RunTraining ==
    /\ Stopped(pc)
    /\ Stopped(tpc)
    /\ tpc' = "start"
    /\ fitted' = None
    /\ model_before' = model_files[DEFAULT_MODEL_PATH]
    /\ UNCHANGED <<model_files, trainer_others>>

(* A step that changes no variable of the model and may raise *)
Pass(step) ==
    /\ Following(tpc) = step
    /\ tpc' \in {step, "failed"}
    /\ UNCHANGED <<fitted, model_before, model_files, trainer_others>>

(* Step 1: read_csv raises when the features file is missing *)
TrainLoadFeatures ==
    /\ Following(tpc) = "load_features"
    /\ tpc' = IF Readable(features_csv) THEN "load_features" ELSE "failed"
    /\ UNCHANGED <<fitted, model_before, model_files, trainer_others>>

(* Step 2: df[FEATURE_COLUMNS] and df[TARGET_COLUMN] raise KeyError *)
TrainPrepareData ==
    /\ Following(tpc) = "prepare_data"
    /\ tpc' = IF /\ \A c \in TRAIN_COLUMNS : HasColumn(features_csv, c)
                 /\ train_test_split(features_csv.rows)
              THEN "prepare_data" ELSE "failed"
    /\ UNCHANGED <<fitted, model_before, model_files, trainer_others>>

(* Step 3 *)
TrainSetupMlflow == Pass("setup_mlflow")

(* Step 4 *)
TrainFit ==
    /\ Following(tpc) = "train_model"
    /\ \/ /\ tpc' = "train_model"
          /\ fitted' \in Fits
       \/ /\ tpc' = "failed"
          /\ UNCHANGED fitted
    /\ UNCHANGED <<model_before, model_files, trainer_others>>

(* Step 5 *)
TrainEvaluate == Pass("evaluate_model")

(* Step 6 *)
TrainImportance == Pass("get_feature_importance")

(* Step 7 *)
TrainLog == Pass("log_to_mlflow")

(* Step 8: joblib.dump(model, MODEL_OUTPUT_PATH) *)
TrainSave ==
    /\ Following(tpc) = "save_model"
    /\ tpc' = "save_model"
    /\ model_files' = save_model(model_files, fitted)
    /\ UNCHANGED <<fitted, model_before, trainer_others>>

(* The summary is printed and run_training returns *)
TrainReturn ==
    /\ Following(tpc) = "return"
    /\ tpc' = "done"
    /\ UNCHANGED <<fitted, model_before, model_files, trainer_others>>

TrainerNext ==
    \/ RunTraining
    \/ TrainLoadFeatures
    \/ TrainPrepareData
    \/ TrainSetupMlflow
    \/ TrainFit
    \/ TrainEvaluate
    \/ TrainImportance
    \/ TrainLog
    \/ TrainSave
    \/ TrainReturn

RunsNext ==
    \/ RunPipeline
    \/ ReplaceRaw
    \/ StepLoad
    \/ StepH3
    \/ StepTime
    \/ StepAggregate
    \/ StepLag
    \/ StepMapping
    \/ StepSave
    \/ TrainerNext

----------------------------------------------------------------------------
(* The scripts run one after the other: generator, validator, feature      *)
(* pipeline, trainer, service                                              *)

(* A dataset an earlier hand left at RAW_DATA_PATH *)
OldRaw ==
    Table(GeneratedColumns,
          <<GeneratedRecord(Ambulances[1], <<129, 774>>, 0, "YES"),
            GeneratedRecord(Ambulances[2], <<130, 776>>, 3 * TicksPerHour, "YES"),
            GeneratedRecord(Ambulances[1], <<131, 778>>, 5 * TicksPerHour, "NO")>>)

(* python generate_data.py, here with a single record *)
ChainGenerate == records = <<>> /\ GenerateRecord

(* python validate_date.py, once the generator has ended *)
RunValidation ==
    /\ gpc = "done"
    /\ vpc = "idle"
    /\ vpc' = "start"
    /\ UNCHANGED <<results, returned, gpc, records, generated_csv>>
    /\ UNCHANGED <<pipeline_vars, service_vars, run_vars, trainer_vars>>

(* python build_features.py, once the validator has ended *)
ChainRunPipeline ==
    /\ vpc \in {"returned", "raised"}
    /\ run = 0
    /\ RunPipeline

(* python train.py, once the feature pipeline has ended *)
ChainRunTraining ==
    /\ pc \in {"done", "failed"}
    /\ tpc = "idle"
    /\ RunTraining

(* The service is started once the trainer has ended *)
ChainStartService ==
    /\ tpc \in {"done", "failed"}
    /\ StartService

ChainNext ==
    \/ ChainGenerate
    \/ SaveData
    \/ RunValidation
    \/ ValidatorNext
    \/ ChainRunPipeline
    \/ PipelineNext
    \/ ChainRunTraining
    \/ TrainLoadFeatures
    \/ TrainPrepareData
    \/ TrainSetupMlflow
    \/ TrainFit
    \/ TrainEvaluate
    \/ TrainImportance
    \/ TrainLog
    \/ TrainSave
    \/ TrainReturn
    \/ ChainStartService
    \/ Health

----------------------------------------------------------------------------
(* Specifications *)

PipelineAsleep ==
    /\ pc = "idle"
    /\ df = <<>>
    /\ demand_df = <<>>
    /\ features_df = <<>>
    /\ hexagon_df = <<>>
    /\ features_csv = NoFile
    /\ hexagon_csv = NoFile
    /\ run = 0
    /\ before = [features |-> NoFile, hexagon |-> NoFile]

PipelineIdle == raw_csv = NoFile /\ PipelineAsleep

ServiceIdle ==
    /\ model_files = [p \in ModelPaths |-> None]
    /\ env_MODEL_PATH = "unset"
    /\ server = "main"
    /\ svc = "idle"
    /\ model = None
    /\ last = Nothing
    /\ prev = Nothing

TrainerIdle ==
    /\ tpc = "idle"
    /\ fitted = None
    /\ model_before = None

GeneratorIdle ==
    /\ gpc = "idle"
    /\ records = <<>>
    /\ generated_csv = NoFile

ValidatorIdle ==
    /\ vpc = "idle"
    /\ results = <<>>
    /\ returned = "none"

DataIdle == GeneratorIdle /\ ValidatorIdle

(* The feature pipeline run on a raw table *)
PipelineInit == PipelineStart /\ ServiceIdle /\ TrainerIdle /\ DataIdle

SpecPipeline == PipelineInit /\ [][PipelineNext]_vars

(* The prediction service and the trainer's model file *)
ServiceInit == ServiceStart /\ PipelineIdle /\ TrainerIdle /\ DataIdle

SpecService == ServiceInit /\ [][ServiceNext]_vars

(* The data generator *)
GeneratorInit ==
    GeneratorStart /\ ValidatorIdle /\ PipelineIdle /\ ServiceIdle /\ TrainerIdle

SpecGenerator == GeneratorInit /\ [][GeneratorNext]_vars

(* The validator run on a table *)
ValidatorInit ==
    ValidatorStart /\ GeneratorIdle /\ PipelineAsleep /\ ServiceIdle /\ TrainerIdle

SpecValidator == ValidatorInit /\ [][ValidatorNext]_vars

(* The pipeline and the trainer run again and again *)
RunsInit == RunsStart /\ DataIdle

SpecRuns == RunsInit /\ [][RunsNext]_vars

(* The scripts in their order, from the generator to the service *)
ChainStart ==
    /\ GeneratorStart
    /\ raw_csv \in {NoFile, OldRaw}
    /\ vpc = "idle"
    /\ results = <<>>
    /\ returned = "none"
    /\ PipelineAsleep
    /\ TrainerIdle
    /\ model_files = [p \in ModelPaths |-> None]
    /\ env_MODEL_PATH = "unset"
    /\ server \in {"main", "run_api"}
    /\ svc = "stopped"
    /\ model = None
    /\ last = Nothing
    /\ prev = Nothing

SpecChain == ChainStart /\ [][ChainNext]_vars

Init ==
    \/ PipelineInit \/ ServiceInit \/ GeneratorInit \/ ValidatorInit
    \/ RunsInit \/ ChainStart

Next ==
    \/ PipelineNext \/ ServiceNext \/ GeneratorNext \/ ValidatorNext
    \/ RunsNext \/ ChainNext

Spec == Init /\ [][Next]_vars

----------------------------------------------------------------------------
(* Properties of the prediction service *)

AnsweredPrediction(h) == h.endpoint = "predict" /\ h.status_code = 200

(* C8: with no model loaded, a valid POST /predict is answered 503 "Model  *)
(* not loaded", and neither resolves a cell nor invokes a model, in both   *)
(* servers.                                                                *)
C8_NoModelGives503 ==
    (/\ svc = "running"
     /\ model = None
     /\ last.endpoint = "predict"
     /\ ValidRequest(last.request))
    => /\ last.status_code = 503
       /\ last.body = [detail |-> "Model not loaded"]
       /\ ~last.resolved
       /\ ~last.invoked

(* C8 witness: run_api.py, started without a model file, has answered a    *)
(* valid prediction request with 503.                                      *)
C8_Witness ==
    /\ svc = "running"
    /\ server = "run_api"
    /\ model = None
    /\ last.endpoint = "predict"
    /\ ValidRequest(last.request)
    /\ last.status_code = 503

(* C9: the model is set when the service starts and by nothing else: no    *)
(* request changes it, a service whose load failed answers every valid     *)
(* /predict with 503 and every /health with model_loaded = FALSE also once *)
(* a model file exists, and a loaded model is never unloaded.              *)
C9_ModelLoadedOnce ==
    [][/\ model' # model => (svc = "stopped" /\ svc' = "running")
       /\ svc = "running" => (svc' = "running" /\ model' = model)
       /\ (svc = "running" /\ model = None /\ last'.endpoint = "predict"
           /\ ValidRequest(last'.request)) => last'.status_code = 503
       /\ (svc = "running" /\ model = None /\ last'.endpoint = "health")
              => (~last'.body.model_loaded /\ last'.body.status = "unhealthy")
       /\ (svc = "running" /\ model # None /\ last'.endpoint = "health")
              => last'.body.model_loaded]_vars

(* C9 witness: api/main.py failed to load its model, a model has been      *)
(* saved at its model path since, and the health check still reports no    *)
(* model.                                                                  *)
C9_Witness ==
    /\ svc = "running"
    /\ server = "main"
    /\ model = None
    /\ model_files[MODEL_PATH_main(env_MODEL_PATH)] \in Models
    /\ last.endpoint = "health"
    /\ ~last.body.model_loaded
    /\ AnsweredPrediction(prev) = FALSE

(* C10: the features given to the model are hour, day_of_week, is_weekend  *)
(* (1 iff day_of_week >= 5), month and four placeholders 1.0; two answered *)
(* predictions for the same (hour, day_of_week, month) carry the same      *)
(* predicted_demand and demand_level, whatever their place.                *)
C10_FeaturesFromTimeOnly ==
    /\ last.invoked =>
          last.features
              = [hour |-> last.request.hour,
                 day_of_week |-> last.request.day_of_week,
                 is_weekend |-> IF last.request.day_of_week >= 5 THEN 1 ELSE 0,
                 month |-> last.request.month,
                 demand_lag_1h |-> PLACEHOLDER_LAG,
                 demand_lag_24h |-> PLACEHOLDER_LAG,
                 demand_rolling_3h |-> PLACEHOLDER_LAG,
                 demand_rolling_24h |-> PLACEHOLDER_LAG]
    /\ (/\ AnsweredPrediction(prev)
        /\ AnsweredPrediction(last)
        /\ prev.request.hour = last.request.hour
        /\ prev.request.day_of_week = last.request.day_of_week
        /\ prev.request.month = last.request.month)
       => /\ prev.body.predicted_demand = last.body.predicted_demand
          /\ prev.body.demand_level = last.body.demand_level

(* C10 witness: two answered predictions for the same time and different   *)
(* places and cells, with a positive demand.                               *)
C10_Witness ==
    /\ AnsweredPrediction(prev)
    /\ AnsweredPrediction(last)
    /\ prev.request.hour = last.request.hour
    /\ prev.request.day_of_week = last.request.day_of_week
    /\ prev.request.month = last.request.month
    /\ prev.request.latitude # last.request.latitude
    /\ prev.body.h3_index # last.body.h3_index
    /\ last.body.predicted_demand > 0
    /\ last.body.demand_level # "LOW"

(* An observation at the place of a request, as the raw table holds it *)
ObservationAt(lat, lon) ==
    [license_plate |-> "KA01", observationDateTime |-> 0,
     latitude |-> lat, longitude |-> lon]

(* C11: the h3_index of an answered prediction is the h3_index that        *)
(* add_h3_features gives an observation at the same latitude and           *)
(* longitude, in both servers; two answers for one place carry one         *)
(* h3_index; and the answer echoes the latitude, longitude, hour and       *)
(* day_of_week of the request.                                             *)
C11_SameCellEverywhere ==
    /\ AnsweredPrediction(last) =>
          /\ last.body.h3_index
                = add_h3_features(<<ObservationAt(last.request.latitude,
                                                 last.request.longitude)>>)[1].h3_index
          /\ last.body.latitude = last.request.latitude
          /\ last.body.longitude = last.request.longitude
          /\ last.body.hour = last.request.hour
          /\ last.body.day_of_week = last.request.day_of_week
    /\ (/\ AnsweredPrediction(prev)
        /\ AnsweredPrediction(last)
        /\ prev.request.latitude = last.request.latitude
        /\ prev.request.longitude = last.request.longitude)
       => prev.body.h3_index = last.body.h3_index

(* C11 witness: run_api.py answered a prediction for a place that is not   *)
(* the centre of its cell, after a prediction for another hour.            *)
C11_Witness ==
    /\ server = "run_api"
    /\ AnsweredPrediction(prev)
    /\ AnsweredPrediction(last)
    /\ prev.request.hour # last.request.hour
    /\ cell_to_latlng(last.body.h3_index)
           # <<last.request.latitude, last.request.longitude>>

(* C17: whatever the model state, the status code and the body of every    *)
(* answer to /, /health and /predict are those that api/main.py gives and  *)
(* those that run_api.py gives to the same request.                        *)
C17_ServersEquivalent ==
    (svc = "running" /\ last.endpoint # "none")
    => LET a == app_main(model, last.endpoint, last.request)
           b == app_run_api(model, last.endpoint, last.request)
       IN  /\ a.status_code = b.status_code
           /\ a.body = b.body
           /\ last.status_code = a.status_code
           /\ last.body = a.body

(* C17 witness: run_api.py answered a prediction whose value depends on    *)
(* the features, after another prediction with another value.              *)
C17_Witness ==
    /\ server = "run_api"
    /\ model = "regressorB"
    /\ AnsweredPrediction(prev)
    /\ AnsweredPrediction(last)
    /\ prev.body.predicted_demand # last.body.predicted_demand
    /\ last.body.predicted_demand > 0

Labels == <<"LOW", "MEDIUM", "HIGH", "CRITICAL">>

Rank(label) == CHOOSE n \in 1..Len(Labels) : Labels[n] = label

(* C19: the label of a demand d is LOW iff d < 1, MEDIUM iff 1 <= d < 3,   *)
(* HIGH iff 3 <= d < 5 and CRITICAL iff d >= 5 (d in thousandths), in both *)
(* servers, and of two demands the larger never has the lower label.       *)
C19_LevelThresholds ==
    /\ AnsweredPrediction(last) =>
          LET d == last.prediction
              l == last.body.demand_level
          IN  /\ \E n \in 1..Len(Labels) : Labels[n] = l
              /\ l = "LOW" <=> d < 1000
              /\ l = "MEDIUM" <=> (1000 <= d /\ d < 3000)
              /\ l = "HIGH" <=> (3000 <= d /\ d < 5000)
              /\ l = "CRITICAL" <=> d >= 5000
              /\ get_demand_level(last.output) = "LOW" <=> last.output < 1000
              /\ get_demand_level_run_api(last.output) = "LOW"
                     <=> last.output < 1000
    /\ (/\ AnsweredPrediction(prev)
        /\ AnsweredPrediction(last)
        /\ prev.prediction <= last.prediction)
       => Rank(prev.body.demand_level) <= Rank(last.body.demand_level)

(* C19 witness: a demand of exactly 3 is labelled HIGH. *)
C19_Witness ==
    /\ AnsweredPrediction(last)
    /\ last.prediction = 3000
    /\ last.body.demand_level = "HIGH"

(* C20: the predicted_demand of an answered prediction is not negative: it *)
(* is max(0, output) rounded to hundredths for every output of the model,  *)
(* and a negative output is answered with 0 and the level LOW.             *)
C20_PredictionNotNegative ==
    AnsweredPrediction(last) =>
        /\ last.body.predicted_demand >= 0
        /\ last.body.predicted_demand
              = round2(IF last.output > 0 THEN last.output ELSE 0)
        /\ last.output < 0 =>
              (last.body.predicted_demand = 0 /\ last.body.demand_level = "LOW")

(* C20 witness: the model returned a negative value and the prediction was *)
(* answered.                                                               *)
C20_Witness ==
    /\ AnsweredPrediction(last)
    /\ last.output < 0
    /\ last.body.predicted_demand = 0

----------------------------------------------------------------------------
(* Properties of the validator and of the data generator *)

(* The five checks that decide the validation *)
FivePass(d) ==
    /\ validate_columns(d)
    /\ validate_no_nulls(d)
    /\ validate_coordinates(d)
    /\ validate_service_status(d)
    /\ validate_datetime(d)

(* The table without the columns that are not expected *)
WithoutExtra(d) ==
    Table(d.columns \cap ExpectedSet, Project(d.rows, d.columns \cap ExpectedSet))

ExtraNulls(d) ==
    {x \in (1..Len(d.rows)) \X (d.columns \ ExpectedSet) :
        isnull(x[2], d.rows[x[1]][x[2]])}

Ended == vpc \in {"returned", "raised"}

(* Without the data file run_validation returns False, loads no table and  *)
(* runs no check.                                                          *)
NoFileNoChecks ==
    ~raw_csv.exists =>
        /\ vpc \in {"start", "returned"}
        /\ results = <<>>
        /\ vpc = "returned" => returned = "False"

(* C12 as stated: without the data file run_validation returns False and   *)
(* runs nothing; with it, it returns True iff the column, null,            *)
(* coordinate, service-status and datetime checks pass, and columns that   *)
(* are not expected never change that: the result is the one for the       *)
(* table without them.                                                     *)
C12_ExtraColumnsNeverFail ==
    /\ NoFileNoChecks
    /\ (raw_csv.exists /\ Ended) =>
           (returned = "True" <=> FivePass(WithoutExtra(read_csv(raw_csv))))

(* C12 amended: without the data file run_validation returns False and     *)
(* runs nothing; with it, it returns True iff the column, null,            *)
(* coordinate, service-status and datetime checks pass on the table as     *)
(* loaded, the null check counting every column; other vehicle types and   *)
(* few records never fail it, and neither do columns that are not          *)
(* expected as long as they hold no missing value.                         *)
C12_ValidationResult ==
    /\ NoFileNoChecks
    /\ returned # "none" => vpc = "returned"
    /\ (raw_csv.exists /\ Ended) =>
           (returned = "True" <=> FivePass(read_csv(raw_csv)))
    /\ (raw_csv.exists /\ Ended /\ ExtraNulls(read_csv(raw_csv)) = {}) =>
           (returned = "True" <=> FivePass(WithoutExtra(read_csv(raw_csv))))

(* C12 witness: a table of fewer than 1000 records with a column that is   *)
(* not expected and a vehicle that is no ambulance was validated as True.  *)
C12_Witness ==
    /\ vpc = "returned"
    /\ returned = "True"
    /\ "notes" \in raw_csv.columns
    /\ Len(raw_csv.rows) = MaxRows
    /\ \E i \in 1..Len(raw_csv.rows) :
           raw_csv.rows[i].emergencyVehicleType # "Ambulance"

(* C13: for every loaded table the seven checks all run, in the order of   *)
(* CHECKS, and each adds its boolean to the summary, whatever the earlier  *)
(* checks returned and also when an expected column is missing.            *)
C13_AllChecksRun ==
    raw_csv.exists =>
        /\ vpc # "raised"
        /\ vpc = "returned" =>
              /\ Len(results) = Len(CHECKS)
              /\ \A n \in 1..Len(CHECKS) :
                     results[n][1] = CHECKS[n] /\ results[n][2] \in BOOLEAN

(* C18: every generated record has its latitude and longitude inside the   *)
(* bounding box of the validator, serviceOnDuty YES or NO, the vehicle     *)
(* type Ambulance and no missing field; and the saved dataset, read back,  *)
(* passes the column, null, coordinate and service-status checks.          *)
C18_GeneratedDataValid ==
    /\ \A i \in 1..Len(records) :
           /\ records[i].latitude >= LAT_MIN_validate
           /\ records[i].latitude <= LAT_MAX_validate
           /\ records[i].longitude >= LON_MIN_validate
           /\ records[i].longitude <= LON_MAX_validate
           /\ records[i].serviceOnDuty \in {"YES", "NO"}
           /\ records[i].emergencyVehicleType = "Ambulance"
           /\ DOMAIN records[i] = ExpectedSet
           /\ \A c \in ExpectedSet :
                  /\ ~isnull(c, records[i][c])
                  /\ c \notin NumericColumns => records[i][c] \notin NA_VALUES
    /\ gpc = "done" =>
           LET d == read_csv(generated_csv)
           IN  /\ Len(d.rows) = Len(records)
               /\ validate_columns(d)
               /\ validate_no_nulls(d)
               /\ validate_coordinates(d)
               /\ validate_service_status(d)

(* C18 witness: a saved dataset with a record near a hotspot whose noise   *)
(* left the bounding box and a record of the uniform branch, one of them   *)
(* off duty.                                                               *)
C18_Witness ==
    /\ gpc = "done"
    /\ \E i, j \in 1..Len(generated_csv.rows) :
           /\ generated_csv.rows[i].latitude = LAT_MIN_generate
           /\ generated_csv.rows[i].longitude = HOTSPOTS[2].lon - 1
           /\ generated_csv.rows[j].latitude = LAT_MAX_generate
           /\ generated_csv.rows[j].longitude = LON_MAX_generate
           /\ generated_csv.rows[i].serviceOnDuty
                  # generated_csv.rows[j].serviceOnDuty

----------------------------------------------------------------------------
(* Properties of the reruns and of the trainer *)

(* The file is missing, or lacks one of the columns cols *)
InputDefect(f, cols) == ~f.exists \/ \E c \in cols : ~HasColumn(f, c)

(* The positions run_feature_engineering can reach when the raw file lacks *)
(* what its steps index, step by step                                      *)
ReachableWith(f) ==
    {"start", "failed"}
    \cup (IF f.exists /\ HasColumn(f, "serviceOnDuty")
          THEN {"loaded"} \cup
               (IF HasColumn(f, "latitude") /\ HasColumn(f, "longitude")
                THEN {"h3"} \cup
                     (IF HasColumn(f, "observationDateTime")
                      THEN {"time"} ELSE {})
                ELSE {})
          ELSE {})

(* C14: in run_feature_engineering and in run_training a missing input     *)
(* file or a missing required column halts the run at the step that needs  *)
(* it, and the halted run has written nothing: the features file, the      *)
(* hexagon mapping and the model file are as they were when the run began. *)
C14_HaltWritesNothing ==
    /\ (pc # "idle" /\ InputDefect(raw_csv, RAW_COLUMNS)) =>
          /\ pc \in ReachableWith(raw_csv)
          /\ features_csv = before.features
          /\ hexagon_csv = before.hexagon
    /\ (pc = "failed") =>
          /\ features_csv = before.features
          /\ hexagon_csv = before.hexagon
    /\ (tpc # "idle" /\ InputDefect(features_csv, TRAIN_COLUMNS)) =>
          /\ tpc \in (IF features_csv.exists
                      THEN {"start", "load_features", "failed"}
                      ELSE {"start", "failed"})
          /\ fitted = None
          /\ model_files[DEFAULT_MODEL_PATH] = model_before

(* C14 witness: a pipeline run on a raw file without license_plate has     *)
(* failed and left the earlier features file, and a training run on a      *)
(* features file that lacks a column has failed and left the earlier model *)
C14_Witness ==
    /\ pc = "failed"
    /\ raw_csv.exists
    /\ ~HasColumn(raw_csv, "license_plate")
    /\ before.features.exists
    /\ features_csv = before.features
    /\ tpc = "failed"
    /\ features_csv.exists
    /\ InputDefect(features_csv, TRAIN_COLUMNS)
    /\ model_before = "regressorB"
    /\ model_files[DEFAULT_MODEL_PATH] = "regressorB"

(* C15: the files a completed run of run_feature_engineering has written   *)
(* are the features and the hexagon mapping of the raw table that run      *)
(* read, whatever the files held before: the same raw table gives the same *)
(* records, and no record of an earlier run is kept.                       *)
C15_OutputsFromRawOnly ==
    pc = "done" =>
        /\ features_csv = File(FeaturesOf(raw_csv.rows))
        /\ hexagon_csv = File(MappingOf(raw_csv.rows))

(* C15 witness: a second run has completed on a raw table other than the   *)
(* one of the run before, whose records were in the files when it began;   *)
(* none of them is in the files now                                        *)
C15_Witness ==
    /\ pc = "done"
    /\ run >= 2
    /\ before.features \in {File(FeaturesOf(t)) : t \in RunTables}
    /\ before.features.rows # <<>>
    /\ features_csv.rows # <<>>
    /\ \A i \in 1..Len(before.features.rows) :
          \A j \in 1..Len(features_csv.rows) :
              features_csv.rows[j] # before.features.rows[i]
    /\ \A i \in 1..Len(before.hexagon.rows) :
          \A j \in 1..Len(hexagon_csv.rows) :
              hexagon_csv.rows[j] # before.hexagon.rows[i]

(* C16: run_training writes the model file in its last step only, after    *)
(* the logging step has completed; until then, and when the run has        *)
(* failed, the model file is the one the run found; once written it is     *)
(* the regressor the run has fitted.                                       *)
C16_ModelSavedLast ==
    /\ [](tpc \notin {"idle", "save_model", "done"} =>
             model_files[DEFAULT_MODEL_PATH] = model_before)
    /\ [](tpc \in {"save_model", "done"} =>
             /\ fitted \in Fits
             /\ model_files[DEFAULT_MODEL_PATH] = fitted)
    /\ [][model_files' # model_files =>
             /\ tpc = "log_to_mlflow"
             /\ tpc' = "save_model"
             /\ model_files' = [model_files EXCEPT ![DEFAULT_MODEL_PATH] = fitted]
         ]_vars

(* C16 witness: a first training run has replaced the model file by its    *)
(* regressor, and a second run that fitted another regressor has failed    *)
(* and left the file of the first                                          *)
C16_Witness ==
    /\ tpc = "failed"
    /\ model_before = "regressorA"
    /\ fitted = "regressorB"
    /\ model_files[DEFAULT_MODEL_PATH] = "regressorA"


----------------------------------------------------------------------------
(* Properties of the answers *)

(* C21: in every answered prediction the demand_level is the label the     *)
(* thresholds give to the predicted_demand of the same answer, the value   *)
(* rounded to two decimals.                                                *)
C21_LevelMatchesReturnedValue ==
    AnsweredPrediction(last) =>
        last.body.demand_level = get_demand_level(last.body.predicted_demand)


(* The ranges of the five request fields, limits included; latitude and    *)
(* longitude in tenths of a degree                                         *)
InRanges(r) ==
    /\ {"latitude", "longitude", "hour", "day_of_week", "month"} \subseteq DOMAIN r
    /\ r.latitude \in 128..132
    /\ r.longitude \in 774..778
    /\ r.hour \in 0..23
    /\ r.day_of_week \in 0..6
    /\ r.month \in 1..12

(* C22: a /predict request is handled exactly when its five fields are     *)
(* present and inside their ranges, limits included; every other request   *)
(* is answered 422 with no cell resolved and the model not invoked, so the *)
(* model only sees hours, days and months of the ranges.                   *)
C22_OnlyValidRequestsHandled ==
    last.endpoint = "predict" =>
        /\ InRanges(last.request) <=> last.status_code \in {200, 503}
        /\ ~InRanges(last.request) =>
              /\ last.status_code = 422
              /\ ~last.resolved
              /\ ~last.invoked
        /\ last.invoked =>
              /\ last.features.hour \in 0..23
              /\ last.features.day_of_week \in 0..6
              /\ last.features.month \in 1..12
        /\ last.resolved =>
              \E lat \in 128..132, lon \in 774..778 :
                  last.body.h3_index = latlng_to_cell(lat, lon, 8)

(* C22 witness: a request on the upper limits of the box and of the time   *)
(* fields was answered, then a request without month was rejected          *)
C22_Witness ==
    /\ last.endpoint = "predict"
    /\ last.status_code = 422
    /\ "month" \notin DOMAIN last.request
    /\ AnsweredPrediction(prev)
    /\ prev.request = [latitude |-> 132, longitude |-> 774, hour |-> 23,
                       day_of_week |-> 6, month |-> 12]
    /\ prev.invoked


(* C23: /health and / are always answered with 200, also without a model;  *)
(* /health says "healthy" exactly when it says model_loaded, and it says   *)
(* model_loaded exactly when the valid /predict requests that follow are   *)
(* not answered 503.                                                       *)
C23_HealthTruthful ==
    /\ [](last.endpoint \in {"health", "root"} => last.status_code = 200)
    /\ [](last.endpoint = "health" =>
             /\ last.body.status \in {"healthy", "unhealthy"}
             /\ (last.body.status = "healthy") <=> last.body.model_loaded
             /\ last.body.model_loaded <=> (model # None))
    /\ []((last.endpoint = "predict" /\ InRanges(last.request)) =>
             ((last.status_code # 503) <=> (model # None)))
    /\ [][/\ svc = "running" => model' = model
          /\ (/\ last.endpoint = "health"
              /\ last'.endpoint = "predict"
              /\ InRanges(last'.request))
             => (last.body.model_loaded <=> (last'.status_code # 503))]_vars

(* C23 witness: run_api.py runs without a model, a valid prediction        *)
(* request would get 503, and the health check has answered 200 with       *)
(* "unhealthy" and model_loaded false                                      *)
C23_Witness ==
    /\ svc = "running"
    /\ server = "run_api"
    /\ model = None
    /\ last.endpoint = "health"
    /\ last.status_code = 200
    /\ last.body.status = "unhealthy"
    /\ ~last.body.model_loaded
    /\ \A r \in CornerRequests : app(server, model, "predict", r).status_code = 503


----------------------------------------------------------------------------
(* Conservation of the observations *)

NoMissingField == \A i \in 1..Len(raw_csv.rows) : HasPlate(i)

OnDutyCount == Cardinality({i \in 1..Len(raw_csv.rows) : OnDuty(i)})

RECURSIVE SumTotalDemand(_, _)
SumTotalDemand(t, n) ==
    IF n = 0 THEN 0 ELSE t[n].total_demand + SumTotalDemand(t, n - 1)

(* C24: for a raw table without missing fields the demand_count of the     *)
(* demand records adds up to the number of observations on duty, no record *)
(* counts more than the on-duty observations of its cell and hour, the     *)
(* hexagon mapping has one row per cell and its total_demand adds up to    *)
(* the same number.                                                        *)
C24_Conservation ==
    NoMissingField =>
        /\ Aggregated =>
              /\ SumCounts(demand_df, Indices(demand_df), 1, Len(demand_df))
                    = OnDutyCount
              /\ \A n \in 1..Len(demand_df) :
                    demand_df[n].demand_count
                        <= Cardinality({i \in ObsAt(demand_df[n].h3_index,
                                                    demand_df[n].datetime_hour) :
                                           OnDuty(i)})
        /\ Lagged =>
              SumCounts(features_df, Indices(features_df), 1, Len(features_df))
                  = OnDutyCount
        /\ pc \in {"mapped", "done"} =>
              /\ SumTotalDemand(hexagon_df, Len(hexagon_df)) = OnDutyCount
              /\ Len(hexagon_df) = Cardinality(CellsOf(features_df))
              /\ CellsOf(hexagon_df) = CellsOf(features_df)

(* C24 witness: a completed run on a table without missing fields that has *)
(* an observation off duty, two cells, and a record of two observations    *)
C24_Witness ==
    /\ pc = "done"
    /\ NoMissingField
    /\ \E i \in 1..Len(raw_csv.rows) : ~OnDuty(i)
    /\ OnDutyCount >= 3
    /\ Len(hexagon_df) >= 2
    /\ \E n \in 1..Len(features_df) : features_df[n].demand_count >= 2


----------------------------------------------------------------------------
(* The input schema of the model *)

(* The names of a list of columns *)
Names(cols) == {cols[i] : i \in 1..Len(cols)}

(* An observation on day d of the week: 2024-01-01 is a Monday *)
ObservedOn(d) == <<Obs("KA01", d * 24 * TicksPerHour, 1, "YES")>>

(* C25: the frame prepare_features builds has the columns of the trainer's *)
(* FEATURE_COLUMNS in the same order, in both servers; the features table  *)
(* of the pipeline has every one of them; and the is_weekend the service   *)
(* gives to a request is the one the pipeline gives to an observation of   *)
(* the same day of the week, 1 exactly from day 5 on.                      *)
C25_SchemaAgreement ==
    /\ FEATURE_NAMES_main = FEATURE_COLUMNS_train
    /\ FEATURE_NAMES_run_api = FEATURE_COLUMNS_train
    /\ last.invoked =>
          /\ DOMAIN last.features
                = Names(IF server = "main" THEN FEATURE_NAMES_main
                        ELSE FEATURE_NAMES_run_api)
          /\ DOMAIN last.features \subseteq
                DOMAIN FeaturesOf(ObservedOn(last.request.day_of_week))[1]
          /\ LET row == add_time_features(add_h3_features(
                            ObservedOn(last.request.day_of_week)))[1]
             IN  /\ row.day_of_week = last.request.day_of_week
                 /\ row.is_weekend = last.features.is_weekend
          /\ (last.features.is_weekend = 1) <=> (last.request.day_of_week >= 5)
          /\ last.features.is_weekend \in {0, 1}

(* C25 witness: run_api.py has answered a request for a Sunday with        *)
(* is_weekend 1, after a request for a Friday with is_weekend 0            *)
C25_Witness ==
    /\ server = "run_api"
    /\ last.invoked
    /\ last.request.day_of_week = 6
    /\ last.features.is_weekend = 1
    /\ prev.invoked
    /\ prev.request.day_of_week = 4
    /\ prev.features.is_weekend = 0


----------------------------------------------------------------------------
(* The chain of the scripts *)

(* C26: run in order, every script reads what the script before it wrote:  *)
(* the validator and the feature pipeline read the dataset the generator   *)
(* has saved, the trainer reads the features file the pipeline has saved,  *)
(* and the service has loaded the model the trainer has saved.             *)
C26_StagesChained ==
    /\ vpc # "idle" => raw_csv = generated_csv
    /\ pc # "idle" => raw_csv = generated_csv
    /\ (pc = "done" /\ tpc # "idle") =>
          /\ FEATURES_PATH = FEATURES_OUTPUT_PATH
          /\ features_csv = File(features_df)
    /\ (tpc = "done" /\ svc = "running") =>
          /\ model = fitted
          /\ MODEL_OUTPUT_PATH
                = (IF server = "main" THEN MODEL_PATH_main(env_MODEL_PATH)
                   ELSE MODEL_PATH_run_api(model_files))

============================================================================
